---- MODULE Spec2Model ----
(***************************************************************************)
(* State-machine model of the BSAT competition CDCL solver                 *)
(* (src/competition/c).  The single variable s is the Solver struct of     *)
(* include/solver.h; the remaining variables are the position of the       *)
(* caller inside solver_solve_with_assumptions and the values returned by  *)
(* the API.  Arrays are modelled as sequences read with At (0-based, as    *)
(* in the C code).                                                         *)
(*                                                                         *)
(* Numbers: activities and var_inc are exact rationals with the common     *)
(* denominator ActScale (var_decay = 0.95 = 19/20, so var_inc after k      *)
(* conflicts is 20^k/19^k); the LBD moving averages are exact rationals    *)
(* with the dyadic decay factors of ModelOpts.                             *)
(***************************************************************************)
EXTENDS Integers, Sequences, FiniteSets, TLC

(***************************************************************************)
(* Bounds of the model                                                     *)
(***************************************************************************)
MaxVars == 3
MaxClauses == 3
MaxConflicts == 4
MaxAssumps == 1

(***************************************************************************)
(* types.h                                                                 *)
(***************************************************************************)
INVALID_VAR == 0
LIT_UNDEF == 0
INVALID_CLAUSE == -1
BINARY_CONFLICT == -2
INVALID_LEVEL == -1
HEAP_NONE == -1
UNDEF == 0
LFALSE == 1
LTRUE == 2

\* an array slot that was allocated but never written (realloc'd memory):
\* its value is indeterminate
INDETERMINATE == -3

mkLit(v, sgn) == 2 * v + (IF sgn THEN 1 ELSE 0)
var(l) == l \div 2
sign(l) == (l % 2) = 1
neg(l) == IF l % 2 = 0 THEN l + 1 ELSE l - 1

(***************************************************************************)
(* 0-based arrays                                                          *)
(***************************************************************************)
At(a, i) == a[i + 1]
SetAt(a, i, x) == [a EXCEPT ![i + 1] = x]
Prefix(a, n) == SubSeq(a, 1, n)
RECURSIVE Pow(_, _)
Pow(b, e) == IF e = 0 THEN 1 ELSE b * Pow(b, e - 1)

\* common denominator of var_inc and the activities (19^MaxConflicts)
ActScale == Pow(19, MaxConflicts + 1)
\* common denominators of fast_ma (alpha 1/2) and slow_ma (alpha 3/4)
FastScale == Pow(2, MaxConflicts + 1)
SlowScale == Pow(4, MaxConflicts + 1)

(***************************************************************************)
(* Inputs: the clauses handed to solver_add_clause, the assumption         *)
(* literals handed to solver_solve_with_assumptions, the options           *)
(***************************************************************************)
ClausePool ==
    { <<>>,
      <<mkLit(3, FALSE)>>, <<mkLit(3, TRUE)>>,
      <<mkLit(1, FALSE), mkLit(2, FALSE)>>,
      <<mkLit(1, TRUE), mkLit(2, FALSE)>>,
      <<mkLit(1, TRUE), mkLit(2, TRUE)>>,
      <<mkLit(1, TRUE), mkLit(2, FALSE), mkLit(3, FALSE)>>,
      <<mkLit(1, TRUE), mkLit(2, FALSE), mkLit(3, TRUE)>>,
      <<mkLit(1, TRUE), mkLit(2, TRUE), mkLit(3, TRUE)>> }

AssumpPool == { mkLit(1, FALSE), mkLit(3, TRUE) }

default_opts ==
    [ max_conflicts |-> 0, max_decisions |-> 0,
      restart_first |-> 100, restart_inc_num |-> 3, restart_inc_den |-> 2,
      glucose_restart |-> TRUE, restart_postpone |-> 10,
      fast_alpha_num |-> 4, fast_alpha_den |-> 5,
      slow_alpha_num |-> 9999, slow_alpha_den |-> 10000,
      glucose_min_conflicts |-> 100,
      phase_saving |-> TRUE, random_phase |-> FALSE,
      glue_lbd |-> 2, reduce_interval |-> 2000, bce |-> TRUE ]

VARIABLES
    s,          \* the Solver struct
    pc,         \* where the caller is: "build", "propagate", "conflict", "decide", "returned"
    conflict,   \* CRef returned by the last solver_propagate of the solve loop
    assumps,    \* assumption literals of the current / last solve call
    ret,        \* last API call and its return value
    given,      \* every clause handed to solver_add_clause, with its return value
    call        \* the current / last solve call: whether an earlier call had
                \* returned before it, and the counters at its entry

vars == <<s, pc, conflict, assumps, ret, given, call>>

(***************************************************************************)
(* Literal values under the current assignment                             *)
(***************************************************************************)
LitTrue(st, l) == st.vars[var(l)].value = (IF sign(l) THEN LFALSE ELSE LTRUE)
LitFalse(st, l) == st.vars[var(l)].value = (IF sign(l) THEN LTRUE ELSE LFALSE)

(***************************************************************************)
(* VSIDS heap (solver.c 107-209)                                           *)
(***************************************************************************)
heap_left(i) == 2 * i + 1
heap_right(i) == 2 * i + 2
heap_parent(i) == (i - 1) \div 2

RECURSIVE PercolateUpLoop(_, _, _, _)
PercolateUpLoop(st, i, v, act) ==
    IF i > 0 /\ st.vars[At(st.heap, heap_parent(i))].activity < act
    THEN LET p == heap_parent(i)
             pv == At(st.heap, p)
         IN PercolateUpLoop([st EXCEPT !.heap = SetAt(@, i, pv),
                                       !.vars[pv].heap_pos = i], p, v, act)
    ELSE [st EXCEPT !.heap = SetAt(@, i, v), !.vars[v].heap_pos = i]

heap_percolate_up(st, i) ==
    PercolateUpLoop(st, i, At(st.heap, i), st.vars[At(st.heap, i)].activity)

RECURSIVE PercolateDownLoop(_, _, _, _)
PercolateDownLoop(st, i, v, act) ==
    IF heap_left(i) < Len(st.heap)
    THEN LET l == heap_left(i)
             r == heap_right(i)
             child == IF r < Len(st.heap)
                         /\ st.vars[At(st.heap, r)].activity > st.vars[At(st.heap, l)].activity
                      THEN r ELSE l
         IN IF act >= st.vars[At(st.heap, child)].activity
            THEN [st EXCEPT !.heap = SetAt(@, i, v), !.vars[v].heap_pos = i]
            ELSE PercolateDownLoop(
                     [st EXCEPT !.heap = SetAt(@, i, At(st.heap, child)),
                                !.vars[At(st.heap, child)].heap_pos = i],
                     child, v, act)
    ELSE [st EXCEPT !.heap = SetAt(@, i, v), !.vars[v].heap_pos = i]

heap_percolate_down(st, i) ==
    PercolateDownLoop(st, i, At(st.heap, i), st.vars[At(st.heap, i)].activity)

heap_insert(st, v) ==
    IF st.vars[v].heap_pos # HEAP_NONE THEN st
    ELSE heap_percolate_up([st EXCEPT !.heap = Append(@, v),
                                      !.vars[v].heap_pos = Len(st.heap)],
                           Len(st.heap))

heap_remove(st, v) ==
    LET pos == st.vars[v].heap_pos
        size == Len(st.heap)
    IN IF pos = HEAP_NONE THEN st
       ELSE IF pos = size - 1
       THEN [st EXCEPT !.vars[v].heap_pos = HEAP_NONE, !.heap = Prefix(@, size - 1)]
       ELSE LET last == At(st.heap, size - 1)
                s1 == [st EXCEPT !.vars[v].heap_pos = HEAP_NONE,
                                 !.heap = SetAt(Prefix(@, size - 1), pos, last),
                                 !.vars[last].heap_pos = pos]
            IN IF pos > 0 /\ s1.vars[last].activity
                               > s1.vars[At(s1.heap, heap_parent(pos))].activity
               THEN heap_percolate_up(s1, pos)
               ELSE heap_percolate_down(s1, pos)

\* returns the solver and the extracted variable
heap_extract_max(st) ==
    IF Len(st.heap) = 0 THEN [st |-> st, v |-> INVALID_VAR]
    ELSE [st |-> heap_remove(st, At(st.heap, 0)), v |-> At(st.heap, 0)]

\* the rescale limit 1e100 of bump_var_activity, in the unit of the
\* activities: 1e100 itself has no integer representation here, this value
\* stands for it.  var_inc starts at 1.0 and grows by 20/19 per conflict, so
\* a solve of MaxConflicts conflicts stays far below it; only an increment
\* of the size of the limit itself passes it
RESCALE_LIMIT == 100000000

\* s->vars[v].activity > 1e100
RescaleDue(act) == act > RESCALE_LIMIT

\* x *= 1e-100: monotone, and small values collapse (underflow)
Rescaled(x) == x \div RESCALE_LIMIT

\* the activity increase without the percolation of the bumped variable
bump_var_activity_in_place(st, v, inc) ==
    LET s2 == [st EXCEPT !.vars[v].activity = @ + inc]
    IN IF RescaleDue(s2.vars[v].activity)
       THEN [s2 EXCEPT !.vars = [i \in DOMAIN @ |->
                                    [@[i] EXCEPT !.activity = Rescaled(@)]],
                       !.var_inc = Rescaled(@)]
       ELSE s2

bump_var_activity(st, v, inc) ==
    LET s1 == [st EXCEPT !.vars[v].activity = @ + inc]
        s2 == IF s1.vars[v].heap_pos # HEAP_NONE
              THEN heap_percolate_up(s1, s1.vars[v].heap_pos) ELSE s1
    IN IF RescaleDue(s2.vars[v].activity)
       THEN [s2 EXCEPT !.vars = [i \in DOMAIN @ |->
                                    [@[i] EXCEPT !.activity = Rescaled(@)]],
                       !.var_inc = Rescaled(@)]
       ELSE s2

\* var_inc /= var_decay, var_decay = 19/20
decay_var_inc(st) == [st EXCEPT !.var_inc = (@ * 20) \div 19]

(***************************************************************************)
(* Arena (arena.c) and watch lists (watch.c)                               *)
(***************************************************************************)
INITIAL_CAPACITY == 4194304
MAX_CLAUSES == 1073741823
HeaderWords == 3

\* ClauseHeader.size is a bit field of 28 bits
SIZE_BITS == 28
MAX_CLAUSE_SIZE == 268435455

\* (size_t)(capacity * GROWTH_FACTOR), GROWTH_FACTOR = 1.5
Grown(cap) == cap + cap \div 2

RECURSIVE GrowCapacity(_, _)
\* the loop of arena_grow: the new capacity, 0 when it would pass
\* MAX_CLAUSES, -1 when the loop never ends (a capacity that the growth
\* factor leaves as it is)
GrowCapacity(cap, need) ==
    IF cap >= need THEN cap
    ELSE IF Grown(cap) > MAX_CLAUSES THEN 0
    ELSE IF Grown(cap) = cap THEN -1
    ELSE GrowCapacity(Grown(cap), need)

\* the capacity after the "Ensure we have enough space" step of arena_alloc
CapacityFor(st, total_words) ==
    IF st.arena_size + total_words > st.arena_capacity
    THEN GrowCapacity(st.arena_capacity, st.arena_size + total_words)
    ELSE st.arena_capacity

\* the header and the literals written at cref; lits is the literal block
\* copied by memcpy
ClauseAt(lits, size, learned) ==
    [lits |-> lits, size |-> size % Pow(2, SIZE_BITS), learned |-> learned,
     deleted |-> FALSE, lbd |-> 0, activity |-> 0]

\* the allocation with total_words counting the literals only
arena_alloc_no_header(st, lits, size, learned) ==
    IF CapacityFor(st, size) = -1
    THEN [st |-> st, cref |-> INVALID_CLAUSE, returns |-> FALSE]
    ELSE IF CapacityFor(st, size) = 0
    THEN [st |-> st, cref |-> INVALID_CLAUSE, returns |-> TRUE]
    ELSE [st |-> [st EXCEPT
                    !.arena = (st.arena_size :> ClauseAt(lits, size, learned)) @@ @,
                    !.arena_size = @ + size,
                    !.arena_capacity = CapacityFor(st, size)],
          cref |-> st.arena_size, returns |-> TRUE]

\* returns the solver and the CRef (INVALID_CLAUSE on failure); returns is
\* FALSE when the call never comes back
arena_alloc(st, lits, size, learned) ==
    IF CapacityFor(st, HeaderWords + size) = -1
    THEN [st |-> st, cref |-> INVALID_CLAUSE, returns |-> FALSE]
    ELSE IF CapacityFor(st, HeaderWords + size) = 0
    THEN [st |-> st, cref |-> INVALID_CLAUSE, returns |-> TRUE]
    ELSE [st |-> [st EXCEPT
                    !.arena = (st.arena_size :> ClauseAt(lits, size, learned)) @@ @,
                    !.arena_size = @ + HeaderWords + size,
                    !.arena_capacity = CapacityFor(st, HeaderWords + size)],
          cref |-> st.arena_size, returns |-> TRUE]

\* the deletion that adds the literals only to wasted
arena_delete_no_header(st, cref) ==
    IF cref = INVALID_CLAUSE \/ st.arena[cref].deleted THEN st
    ELSE [st EXCEPT !.arena[cref].deleted = TRUE,
                    !.arena_wasted = @ + st.arena[cref].size]

arena_delete(st, cref) ==
    IF cref = INVALID_CLAUSE \/ st.arena[cref].deleted THEN st
    ELSE [st EXCEPT !.arena[cref].deleted = TRUE,
                    !.arena_wasted = @ + HeaderWords + st.arena[cref].size]

watch_init(n) == [l \in 0 .. (2 * n + 1) |-> <<>>]

\* watch_alloc: the lists whose array has been allocated (capacity > 0)
watch_add(st, lit, cref, blocker) ==
    [st EXCEPT !.watches[lit] = Append(@, [cref |-> cref, blocker |-> blocker]),
               !.watch_alloc = @ \cup {lit}]

(***************************************************************************)
(* Variables and the trail (solver.c 275-424)                              *)
(***************************************************************************)
NewVarInfo ==
    [ value |-> UNDEF, level |-> INVALID_LEVEL, reason |-> INVALID_CLAUSE,
      trail_pos |-> 0, polarity |-> FALSE, activity |-> 0, heap_pos |-> HEAP_NONE ]

\* the creation of a variable without its insertion into the order heap
solver_new_var_unordered(st) ==
    [st EXCEPT !.num_vars = @ + 1,
               !.vars = Append(@, NewVarInfo),
               !.seen = Append(@, 0),
               !.watches = watch_init(st.num_vars + 1),
               !.watch_alloc = {}]

\* num_vars > order.size always holds after ++num_vars (the heap holds each of
\* the older variables at most once), so the arrays grow on every call and the
\* watch manager is freed and created anew
solver_new_var(st) ==
    LET v == st.num_vars + 1
        s1 == [st EXCEPT !.num_vars = v]
        s2 == IF v > Len(st.heap)
              THEN [s1 EXCEPT !.vars = Append(@, NewVarInfo),
                              !.seen = Append(@, 0),
                              !.watches = watch_init(v),
                              !.watch_alloc = {}]
              ELSE s1
    IN heap_insert(s2, v)

push_trail(st, lit) ==
    LET v == var(lit)
        s1 == [st EXCEPT !.vars[v].value = IF sign(lit) THEN LFALSE ELSE LTRUE,
                         !.vars[v].level = st.decision_level,
                         !.vars[v].trail_pos = Len(st.trail),
                         !.trail = Append(@, [lit |-> lit, level |-> st.decision_level])]
    IN IF st.opts.phase_saving
       THEN [s1 EXCEPT !.vars[v].polarity = ~sign(lit)]
       ELSE s1

RECURSIVE BacktrackLoopNoHeap(_, _)
\* the undo loop without the re-insertion into the decision heap
BacktrackLoopNoHeap(st, i) ==
    IF i >= Len(st.trail) THEN st
    ELSE LET v == var(At(st.trail, i).lit)
         IN BacktrackLoopNoHeap([st EXCEPT !.vars[v].value = UNDEF,
                                           !.vars[v].level = INVALID_LEVEL,
                                           !.vars[v].reason = INVALID_CLAUSE],
                                i + 1)

RECURSIVE BacktrackLoop(_, _)
\* the undo loop of solver_backtrack over trail[i .. trail_size-1]
BacktrackLoop(st, i) ==
    IF i >= Len(st.trail) THEN st
    ELSE LET v == var(At(st.trail, i).lit)
             s1 == [st EXCEPT !.vars[v].value = UNDEF,
                              !.vars[v].level = INVALID_LEVEL,
                              !.vars[v].reason = INVALID_CLAUSE]
         IN BacktrackLoop(IF s1.vars[v].heap_pos = HEAP_NONE
                          THEN heap_insert(s1, v) ELSE s1, i + 1)

\* the undo loop started one entry late: the first entry above the target
\* position is cut from the trail but keeps its value
solver_backtrack_late(st, level) ==
    IF level >= st.decision_level THEN st
    ELSE LET trail_pos == IF level = 0 THEN 0 ELSE st.trail_lims[level]
             s1 == BacktrackLoop(st, trail_pos + 1)
         IN [s1 EXCEPT !.trail = Prefix(@, trail_pos),
                       !.qhead = trail_pos,
                       !.decision_level = level]

\* the undo loop started where level + 1 starts: the entries of the target
\* level itself stay on the trail
solver_backtrack_above(st, level) ==
    IF level >= st.decision_level THEN st
    ELSE LET trail_pos == st.trail_lims[level + 1]
             s1 == BacktrackLoop(st, trail_pos)
         IN [s1 EXCEPT !.trail = Prefix(@, trail_pos),
                       !.qhead = trail_pos,
                       !.decision_level = level]

solver_backtrack(st, level) ==
    IF level >= st.decision_level THEN st
    ELSE LET trail_pos == IF level = 0 THEN 0 ELSE st.trail_lims[level]
             s1 == BacktrackLoop(st, trail_pos)
         IN [s1 EXCEPT !.trail = Prefix(@, trail_pos),
                       !.qhead = trail_pos,
                       !.decision_level = level]

\* the scan of the learnt clause in solver_backtrack_chronological:
\* number of unassigned literals, 0 as soon as a true literal is met
RECURSIVE ChronoUnassigned(_, _, _, _)
ChronoUnassigned(st, learnt, i, n) ==
    IF i > Len(learnt) THEN n
    ELSE IF st.vars[var(learnt[i])].value = UNDEF
         THEN ChronoUnassigned(st, learnt, i + 1, n + 1)
    ELSE IF LitTrue(st, learnt[i]) THEN 0
    ELSE ChronoUnassigned(st, learnt, i + 1, n)

RECURSIVE ChronoLoop(_, _, _, _)
ChronoLoop(st, learnt, current, target_level) ==
    IF current > target_level
    THEN LET next_level == current - 1
             s1 == solver_backtrack(st, next_level)
         IN IF ChronoUnassigned(s1, learnt, 1, 0) = 1
            THEN [st |-> s1, level |-> next_level]
            ELSE ChronoLoop(s1, learnt, next_level, target_level)
    ELSE [st |-> st, level |-> target_level]

\* returns the solver and the level actually reached
solver_backtrack_chronological(st, learnt, target_level) ==
    ChronoLoop(st, learnt, st.decision_level, target_level)

(***************************************************************************)
(* solver_add_clause (solver.c 430-546)                                    *)
(***************************************************************************)
Swap(a, i, j) == [a EXCEPT ![i + 1] = a[j + 1], ![j + 1] = a[i + 1]]

RECURSIVE FirstNonFalse(_, _, _)
\* index of the first literal from position i on that is not false, or -1
FirstNonFalse(st, lits, i) ==
    IF i >= Len(lits) THEN -1
    ELSE IF ~LitFalse(st, At(lits, i)) THEN i
    ELSE FirstNonFalse(st, lits, i + 1)

\* the literal order add_clause leaves in the arena: a non-false literal is
\* swapped to position 0, then one to position 1
WatchOrder(st, lits) ==
    LET i0 == FirstNonFalse(st, lits, 0)
        l1 == IF i0 > 0 THEN Swap(lits, 0, i0) ELSE lits
        i1 == FirstNonFalse(st, l1, 1)
    IN IF i1 > 1 THEN Swap(l1, 1, i1) ELSE l1

\* the clauses array: realloc when num_clauses >= num_original (its capacity)
ClausesCapacity(st) ==
    IF st.num_clauses >= st.num_original
    THEN (IF st.num_original # 0 THEN st.num_original * 2 ELSE 1024)
    ELSE st.num_original


\* the size == 1 branch without the test for a literal that is false
AddUnitNoCheck(st, lit) ==
    IF st.vars[var(lit)].value = UNDEF
    THEN [st |-> push_trail(st, lit), ok |-> TRUE]
    ELSE [st |-> st, ok |-> TRUE]

\* the size == 1 branch of solver_add_clause
AddUnit(st, lit) ==
    IF st.vars[var(lit)].value = UNDEF
    THEN [st |-> push_trail(st, lit), ok |-> TRUE]
    ELSE IF LitFalse(st, lit)
    THEN [st |-> [st EXCEPT !.result = LFALSE], ok |-> FALSE]
    ELSE [st |-> st, ok |-> TRUE]

\* returns the solver and the boolean result
solver_add_clause(st, lits) ==
    LET size == Len(lits) IN
    IF size = 0 THEN [st |-> [st EXCEPT !.result = LFALSE], ok |-> FALSE]
    ELSE IF size = 1 THEN AddUnit(st, lits[1])
    ELSE IF size = 2
    THEN \* binary: counted in num_clauses, no slot of clauses[] is written
         LET s1 == [st EXCEPT !.num_clauses = @ + 1,
                              !.clauses = Append(@, INDETERMINATE)]
             f0 == LitFalse(s1, lits[1])
             f1 == LitFalse(s1, lits[2])
             u0 == s1.vars[var(lits[1])].value = UNDEF
             u1 == s1.vars[var(lits[2])].value = UNDEF
         IN IF f0 /\ f1
            THEN [st |-> [s1 EXCEPT !.result = LFALSE], ok |-> FALSE]
            ELSE LET s2 == IF f0 /\ u1 THEN push_trail(s1, lits[2])
                           ELSE IF f1 /\ u0 THEN push_trail(s1, lits[1])
                           ELSE s1
                     s3 == watch_add(s2, lits[1], INVALID_CLAUSE, lits[2])
                 IN [st |-> watch_add(s3, lits[2], INVALID_CLAUSE, lits[1]),
                     ok |-> TRUE]
    ELSE LET a == arena_alloc(st, lits, size, FALSE) IN
         IF a.cref = INVALID_CLAUSE THEN [st |-> st, ok |-> FALSE]
         ELSE LET s1 == [a.st EXCEPT !.num_original = ClausesCapacity(a.st),
                                     !.clauses = Append(@, a.cref),
                                     !.num_clauses = @ + 1]
                  ord == WatchOrder(s1, lits)
                  s2 == [s1 EXCEPT !.arena[a.cref].lits = ord]
                  s3 == watch_add(s2, At(ord, 0), a.cref, At(ord, 1))
              IN [st |-> watch_add(s3, At(ord, 1), a.cref, At(ord, 0)),
                  ok |-> TRUE]

(***************************************************************************)
(* solver_propagate (solver.c 602-795)                                     *)
(***************************************************************************)
\* the assignment made inside solver_propagate: value, level, reason,
\* trail_pos, the trail entry and the saved phase
PropAssign(st, lit, reason) ==
    LET v == var(lit)
        s1 == [st EXCEPT !.vars[v].value = IF sign(lit) THEN LFALSE ELSE LTRUE,
                         !.vars[v].level = st.decision_level,
                         !.vars[v].reason = reason,
                         !.vars[v].trail_pos = Len(st.trail),
                         !.trail = Append(@, [lit |-> lit, level |-> st.decision_level])]
    IN IF st.opts.phase_saving
       THEN [s1 EXCEPT !.vars[v].polarity = ~sign(lit)]
       ELSE s1

RECURSIVE PropagateWatches(_, _, _, _, _)
\* the loop over the watch list ws of neg(p): i is the read index, kept the
\* watches written back so far (watches[0 .. j-1]); PropagateWatch is the
\* body of one iteration
PropagateWatch(st, p, ws, i, kept) ==
    IF i > Len(ws)
    THEN [st |-> [st EXCEPT !.watches[neg(p)] = kept], conflict |-> INVALID_CLAUSE]
    ELSE
    LET w == ws[i] IN
    IF w.cref = INVALID_CLAUSE
    THEN \* binary watch
         LET q == w.blocker IN
         IF st.vars[var(q)].value = UNDEF
         THEN PropagateWatches(PropAssign(st, q, INVALID_CLAUSE), p, ws, i + 1,
                               Append(kept, w))
         ELSE IF LitFalse(st, q)
         THEN [st |-> [st EXCEPT !.watches[neg(p)] = kept \o SubSeq(ws, i, Len(ws))],
               conflict |-> BINARY_CONFLICT]
         ELSE PropagateWatches(st, p, ws, i + 1, Append(kept, w))
    ELSE IF LitTrue(st, w.blocker)
    THEN PropagateWatches(st, p, ws, i + 1, Append(kept, w))
    ELSE
    LET cref == w.cref
        l0 == st.arena[cref].lits
        lits == IF At(l0, 0) = neg(p)
                THEN [l0 EXCEPT ![1] = At(l0, 1), ![2] = neg(p)] ELSE l0
        s1 == [st EXCEPT !.arena[cref].lits = lits]
        first == At(lits, 0)
    IN IF LitTrue(s1, first)
       THEN PropagateWatches(s1, p, ws, i + 1,
                             Append(kept, [cref |-> cref, blocker |-> first]))
       ELSE
       LET k == FirstNonFalse(s1, lits, 2) IN
       IF k # -1
       THEN LET lit == At(lits, k)
                s2 == [s1 EXCEPT !.arena[cref].lits =
                                    [lits EXCEPT ![2] = lit, ![k + 1] = neg(p)]]
            IN PropagateWatches(watch_add(s2, lit, cref, first), p, ws, i + 1, kept)
       ELSE IF s1.vars[var(first)].value = UNDEF
       THEN PropagateWatches(PropAssign(s1, first, cref), p, ws, i + 1,
                             Append(kept, w))
       ELSE [st |-> [s1 EXCEPT !.watches[neg(p)] =
                                  Append(kept, w) \o SubSeq(ws, i + 1, Len(ws))],
             conflict |-> cref]

\* the loop itself: the solver and the write index are values at the head of
\* every iteration
PropagateWatches(st0, p, ws, i, kept0) ==
    CHOOSE r \in { PropagateWatch(st, p, ws, i, kept) :
                      st \in {st0}, kept \in {kept0} } : TRUE

RECURSIVE solver_propagate(_)
\* returns the solver and the conflict CRef (INVALID_CLAUSE: no conflict)
solver_propagate(st) ==
    IF st.qhead < Len(st.trail)
    THEN LET p == At(st.trail, st.qhead).lit
             s1 == [st EXCEPT !.qhead = @ + 1, !.stats.propagations = @ + 1]
             r == PropagateWatches(s1, p, s1.watches[neg(p)], 1, <<>>)
         IN IF r.conflict # INVALID_CLAUSE THEN r ELSE solver_propagate(r.st)
    ELSE [st |-> st, conflict |-> INVALID_CLAUSE]

(***************************************************************************)
(* Conflict analysis (solver.c 801-926)                                    *)
(***************************************************************************)
\* Level is uint32_t and INVALID_LEVEL is UINT32_MAX: unsigned comparisons
LevelGt(a, b) == IF a = INVALID_LEVEL THEN b # INVALID_LEVEL
                 ELSE b # INVALID_LEVEL /\ a > b
LevelGe(a, b) == a = b \/ LevelGt(a, b)

calc_lbd(st, lits) ==
    Cardinality({ st.vars[var(lits[i])].level : i \in 1 .. Len(lits) } \ {0})

RECURSIVE AnalyzeLits(_, _, _)
\* the loop over the literals lits[i ..] of the conflict or reason clause;
\* a is [st, learnt, bt_level, pathC]
AnalyzeLits(a, lits, i) ==
    IF i >= Len(lits) THEN a
    ELSE LET q == At(lits, i)
             v == var(q)
         IN IF a.st.seen[v] = 0 /\ LevelGt(a.st.vars[v].level, 0)
            THEN LET s1 == bump_var_activity([a.st EXCEPT !.seen[v] = 1], v,
                                             a.st.var_inc)
                 IN IF LevelGe(s1.vars[v].level, s1.decision_level)
                    THEN AnalyzeLits([a EXCEPT !.st = s1, !.pathC = @ + 1],
                                     lits, i + 1)
                    ELSE AnalyzeLits(
                             [a EXCEPT !.st = s1,
                                       !.learnt = Append(@, q),
                                       !.bt_level =
                                           IF LevelGt(s1.vars[v].level, @)
                                           THEN s1.vars[v].level ELSE @],
                             lits, i + 1)
            ELSE AnalyzeLits(a, lits, i + 1)

RECURSIVE NextSeen(_, _)
\* while (!seen[var(trail[index].lit)]) index--;  -1: ran below the trail
NextSeen(st, index) ==
    IF index < 0 THEN -1
    ELSE IF st.seen[var(At(st.trail, index).lit)] # 0 THEN index
    ELSE NextSeen(st, index - 1)

ClearSeen(seen, lits) ==
    [v \in DOMAIN seen |->
        IF \E i \in 1 .. Len(lits) : var(lits[i]) = v THEN 0 ELSE seen[v]]

RECURSIVE AnalyzeLoop(_, _, _)
\* the backward traversal: while (pathC > 0)
AnalyzeLoop(a, index, p) ==
    IF a.pathC > 0
    THEN LET idx == NextSeen(a.st, index) IN
         IF idx = -1 THEN [a EXCEPT !.trap = TRUE]
         ELSE
         LET pp == At(a.st.trail, idx).lit
             v == var(pp)
             reason == a.st.vars[v].reason
             a1 == [a EXCEPT !.st.seen[v] = 0, !.pathC = @ - 1]
             a2 == IF a1.pathC > 0 /\ reason # INVALID_CLAUSE
                   THEN AnalyzeLits(a1, a1.st.arena[reason].lits, 1)
                   ELSE a1
         IN AnalyzeLoop(a2, IF idx > 0 THEN idx - 1 ELSE idx, pp)
    ELSE IF p = LIT_UNDEF
    THEN \* learnt[0] = neg(LIT_UNDEF): a literal of variable 0
         [a EXCEPT !.trap = TRUE]
    ELSE LET learnt == [a.learnt EXCEPT ![1] = neg(p)]
         IN [a EXCEPT !.learnt = learnt, !.st.seen = ClearSeen(@, learnt)]

\* returns [st, learnt, bt_level, pathC, trap]; trap: the code left the
\* defined behaviour of C (index below the trail, or no literal to assert)
solver_analyze(st, cf) ==
    LET a0 == [st |-> st, learnt |-> <<LIT_UNDEF>>, bt_level |-> 0, pathC |-> 0,
               trap |-> FALSE]
        index == Len(st.trail) - 1
    IN IF cf = BINARY_CONFLICT
       THEN LET p == At(st.trail, index).lit
                s1 == bump_var_activity([st EXCEPT !.seen[var(p)] = 1], var(p),
                                        st.var_inc)
            IN AnalyzeLoop([a0 EXCEPT !.st = s1, !.pathC = 1], index, p)
       ELSE AnalyzeLoop(AnalyzeLits(a0, st.arena[cf].lits, 0), index, LIT_UNDEF)

(***************************************************************************)
(* Decision (solver.c 932-979)                                             *)
(***************************************************************************)
RECURSIVE PickBranchVar(_)
\* the variant that takes the first variable extracted, assigned or not
PickBranchAny(st) ==
    IF Len(st.heap) > 0 THEN heap_extract_max(st)
    ELSE [st |-> st, v |-> INVALID_VAR]

\* while (order.size > 0) { next = heap_extract_max; if UNDEF break; }
PickBranchVar(st) ==
    IF Len(st.heap) > 0
    THEN LET e == heap_extract_max(st) IN
         IF e.st.vars[e.v].value = UNDEF THEN e ELSE PickBranchVar(e.st)
    ELSE [st |-> st, v |-> INVALID_VAR]

\* the polarity chosen for variable next (random_phase is off in every
\* option record of the model, so rand() is never consulted)
DecidePolarity(st, next) ==
    IF st.opts.phase_saving /\ st.vars[next].polarity
    THEN ~st.vars[next].polarity
    ELSE st.vars[next].polarity

\* returns the solver and whether a decision was made
solver_decide(st) ==
    LET e == PickBranchVar(st) IN
    IF e.v = INVALID_VAR THEN [st |-> e.st, decided |-> FALSE]
    ELSE LET sgn == DecidePolarity(e.st, e.v)
             lvl == e.st.decision_level + 1
             n == Len(e.st.trail)
         IN [st |-> [e.st EXCEPT
                       !.decision_level = lvl,
                       !.trail_lims = (lvl :> n) @@ @,
                       !.vars[e.v].value = IF sgn THEN LFALSE ELSE LTRUE,
                       !.vars[e.v].level = lvl,
                       !.vars[e.v].reason = INVALID_CLAUSE,
                       !.vars[e.v].trail_pos = n,
                       !.trail = Append(@, [lit |-> mkLit(e.v, sgn), level |-> lvl]),
                       !.stats.decisions = @ + 1],
             decided |-> TRUE]

(***************************************************************************)
(* Restart policy (solver.c 985-1041)                                      *)
(***************************************************************************)
\* fast_ma > slow_ma on the scaled numerators
FastAboveSlow(st) == st.restart.fast_ma * SlowScale > st.restart.slow_ma * FastScale

GeometricFire(st) ==
    [st EXCEPT !.restart.conflicts_since = 0,
               !.restart.threshold =
                   (@ * st.opts.restart_inc_num) \div st.opts.restart_inc_den]

\* returns the solver and the boolean result
solver_should_restart(st) ==
    LET geo == st.restart.conflicts_since >= st.restart.threshold IN
    IF st.opts.glucose_restart
    THEN LET glu == st.stats.conflicts > st.opts.glucose_min_conflicts
                    /\ FastAboveSlow(st)
         IN IF glu /\ st.opts.restart_postpone > 0
                   /\ Len(st.trail) < st.opts.restart_postpone
            THEN [st |-> st, restart |-> FALSE]
            ELSE [st |-> IF geo THEN GeometricFire(st) ELSE st,
                  restart |-> glu \/ geo]
    ELSE [st |-> IF geo THEN GeometricFire(st) ELSE st, restart |-> geo]

\* the update of the two LBD moving averages (solver.c 1909-1918, 1937-1946)
UpdateMA(st, lbd) ==
    IF st.stats.conflicts > 0
    THEN [st EXCEPT
            !.restart.fast_ma =
                (st.opts.fast_alpha_num * @
                 + (st.opts.fast_alpha_den - st.opts.fast_alpha_num) * lbd * FastScale)
                \div st.opts.fast_alpha_den,
            !.restart.slow_ma =
                (st.opts.slow_alpha_num * @
                 + (st.opts.slow_alpha_den - st.opts.slow_alpha_num) * lbd * SlowScale)
                \div st.opts.slow_alpha_den]
    ELSE [st EXCEPT !.restart.fast_ma = lbd * FastScale,
                    !.restart.slow_ma = lbd * SlowScale]

(***************************************************************************)
(* Database reduction (solver.c 1057-1147)                                 *)
(***************************************************************************)
\* live learned clauses found in clauses[0 .. num_clauses-1]; a slot that
\* was never written holds an indeterminate word and is not counted here
NumLearnedInClauses(st) ==
    Cardinality({ i \in 1 .. Len(st.clauses) :
                    /\ st.clauses[i] \notin {INVALID_CLAUSE, INDETERMINATE}
                    /\ ~st.arena[st.clauses[i]].deleted
                    /\ st.arena[st.clauses[i]].learned })

\* below the threshold num_clauses/2 + 1000 the call only counts itself;
\* the models' clause counts stay far below 1000, where the threshold cannot
\* be met whatever the unwritten slots hold
ReduceThreshold(st) == st.num_clauses \div 2 + 1000

\* qsort's comparison: LBD ascending, then activity descending
compare_clauses(ca, cb) ==
    IF ca.lbd # cb.lbd THEN ca.lbd - cb.lbd
    ELSE IF ca.activity > cb.activity THEN -1
    ELSE IF ca.activity < cb.activity THEN 1
    ELSE 0

\* "Collect all learned clauses with their scores": the references of the
\* live learned clauses found in clauses[0 .. num_clauses-1]
ReduceScores(st) ==
    { st.clauses[i] : i \in { k \in 1 .. Len(st.clauses) :
                                /\ st.clauses[k] \notin {INVALID_CLAUSE, INDETERMINATE}
                                /\ ~st.arena[st.clauses[k]].deleted
                                /\ st.arena[st.clauses[k]].learned } }

\* the sets of references qsort can leave at scores[to_keep ..]: as many as
\* the second half holds, none of them before a clause of the first half
\* in the order of compare_clauses (the order of equal scores is qsort's)
SecondHalves(st, scores, num_learned) ==
    { h \in SUBSET scores :
        /\ Cardinality(h) = num_learned - num_learned \div 2
        /\ \A c \in h : \A d \in scores \ h :
              compare_clauses(st.arena[d], st.arena[c]) <= 0 }

RECURSIVE DeleteAll(_, _)
DeleteAll(st, crefs) ==
    IF crefs = {} THEN st
    ELSE LET c == CHOOSE x \in crefs : \A y \in crefs : x <= y
         IN DeleteAll(arena_delete(st, c), crefs \ {c})

\* "Keep the best half, delete the rest", glue clauses kept, for the
\* second half h
ReduceDelete(st, h) ==
    LET victims == { c \in h : st.arena[c].lbd > st.opts.glue_lbd }
    IN [DeleteAll(st, victims)
        EXCEPT !.stats.deleted_clauses = @ + Cardinality(victims)]

\* the solvers solver_reduce_db can leave: one below the threshold, and
\* one for each second half of the sorted scores otherwise
ReduceOutcomes(st) ==
    LET s1 == [st EXCEPT !.stats.reduces = @ + 1]
    IN IF NumLearnedInClauses(s1) < ReduceThreshold(s1) THEN { s1 }
       ELSE { ReduceDelete(s1, h) :
                h \in SecondHalves(s1, ReduceScores(s1), NumLearnedInClauses(s1)) }

solver_reduce_db(st) == CHOOSE r \in ReduceOutcomes(st) : TRUE

(***************************************************************************)
(* On-the-fly subsumption and minimization (solver.c 1156-1351)            *)
(***************************************************************************)
clause_subsumes(a, b) ==
    /\ Len(a) <= Len(b)
    /\ \A i \in 1 .. Len(a) : \E j \in 1 .. Len(b) : a[i] = b[j]

RECURSIVE SubsumeLoop(_, _, _, _)
SubsumeLoop(st, learnt, i, n) ==
    IF i >= n THEN st
    ELSE LET cref == At(st.learnts, i) IN
         IF cref # INVALID_CLAUSE /\ ~st.arena[cref].deleted
            /\ clause_subsumes(learnt, st.arena[cref].lits)
         THEN SubsumeLoop([arena_delete(st, cref) EXCEPT
                              !.stats.subsumed_clauses = @ + 1],
                          learnt, i + 1, n)
         ELSE SubsumeLoop(st, learnt, i + 1, n)

solver_on_the_fly_subsumption(st, learnt) ==
    IF Len(learnt) > 5 THEN st
    ELSE SubsumeLoop(st, learnt, 0,
                     IF Len(st.learnts) > 0 THEN Len(st.learnts) - 1 ELSE 0)

RECURSIVE literal_redundant_recursive(_, _, _)
RECURSIVE RedundantLoop(_, _, _, _, _, _)
\* the loop over the reason clause of v; returns [st, red]
RedundantLoop(st, v, old_seen, lits, i, depth) ==
    IF i >= Len(lits) THEN [st |-> [st EXCEPT !.seen[v] = 3], red |-> TRUE]
    ELSE LET q == At(lits, i)
             qv == var(q)
         IN IF qv = v \/ st.vars[qv].level = 0 \/ st.seen[qv] = 1 \/ st.seen[qv] = 3
            THEN RedundantLoop(st, v, old_seen, lits, i + 1, depth)
            ELSE LET r == literal_redundant_recursive(st, q, depth + 1) IN
                 IF ~r.red
                 THEN [st |-> [r.st EXCEPT !.seen[v] = old_seen], red |-> FALSE]
                 ELSE RedundantLoop(r.st, v, old_seen, lits, i + 1, depth)

literal_redundant_recursive(st, p, depth) ==
    LET v == var(p)
        reason == st.vars[v].reason
    IN IF depth > 100 \/ reason = INVALID_CLAUSE \/ reason = BINARY_CONFLICT
          \/ st.seen[v] = 2
       THEN [st |-> st, red |-> FALSE]
       ELSE RedundantLoop([st EXCEPT !.seen[v] = 2], v, st.seen[v],
                          st.arena[reason].lits, 0, depth)

RECURSIVE MinimizeLoop(_, _, _, _)
MinimizeLoop(st, learnt, i, out) ==
    IF i >= Len(learnt) THEN [st |-> st, learnt |-> out]
    ELSE LET r == literal_redundant_recursive(st, At(learnt, i), 0) IN
         MinimizeLoop(r.st, learnt, i + 1,
                      IF r.red THEN out ELSE Append(out, At(learnt, i)))

\* the variant without the final loop that clears seen
solver_minimize_clause_marked(st, learnt) ==
    IF Len(learnt) <= 2 THEN [st |-> st, learnt |-> learnt]
    ELSE MinimizeLoop([st EXCEPT !.seen =
                          [v \in DOMAIN @ |->
                             IF \E i \in 1 .. Len(learnt) : var(learnt[i]) = v
                             THEN 1 ELSE @[v]]],
                      learnt, 1, <<learnt[1]>>)

\* returns the solver and the minimized clause
solver_minimize_clause(st, learnt) ==
    IF Len(learnt) <= 2 THEN [st |-> st, learnt |-> learnt]
    ELSE LET s1 == [st EXCEPT !.seen =
                       [v \in DOMAIN @ |->
                          IF \E i \in 1 .. Len(learnt) : var(learnt[i]) = v
                          THEN 1 ELSE @[v]]]
             r == MinimizeLoop(s1, learnt, 1, <<learnt[1]>>)
         IN [st |-> [r.st EXCEPT !.seen = [v \in DOMAIN @ |-> 0]],
             learnt |-> r.learnt]

(***************************************************************************)
(* Blocked clause elimination (solver.c 1483-1698)                         *)
(***************************************************************************)
RECURSIVE TautScan(_, _, _, _)
\* one of the two marking loops of resolvent_is_tautology: mark is the seen
\* array (1 = positive, 2 = negative); returns [mark, taut]
TautScan(mark, lits, i, v) ==
    IF i > Len(lits) THEN [mark |-> mark, taut |-> FALSE]
    ELSE LET l == lits[i] IN
         IF var(l) = v THEN TautScan(mark, lits, i + 1, v)
         ELSE IF mark[var(l)] = (IF sign(l) THEN 1 ELSE 2)
         THEN [mark |-> mark, taut |-> TRUE]
         ELSE TautScan([mark EXCEPT ![var(l)] = IF sign(l) THEN 2 ELSE 1],
                       lits, i + 1, v)

resolvent_is_tautology(st, c1, c2, v) ==
    IF \/ c1 = INVALID_CLAUSE \/ c1 >= st.arena_size
       \/ c2 = INVALID_CLAUSE \/ c2 >= st.arena_size
    THEN FALSE
    ELSE IF st.arena[c1].deleted \/ st.arena[c2].deleted THEN FALSE
    ELSE LET l1 == st.arena[c1].lits
             l2 == st.arena[c2].lits
         IN IF Len(l1) = 0 \/ Len(l1) > st.num_vars
               \/ Len(l2) = 0 \/ Len(l2) > st.num_vars
            THEN FALSE
            ELSE LET r1 == TautScan([x \in 1 .. st.num_vars |-> 0], l1, 1, v)
                 IN r1.taut \/ TautScan(r1.mark, l2, 1, v).taut

\* the clauses seen through the watch list of neg(blocking_lit): a list that
\* never received a watch has a NULL array and answers "not blocked"
clause_is_blocked(st, cref, blocking_lit) ==
    LET negated == neg(blocking_lit)
        wl == st.watches[negated]
    IN IF negated \notin st.watch_alloc THEN FALSE
       ELSE \A i \in 1 .. Len(wl) :
              LET other == wl[i].cref IN
                \/ other = INVALID_CLAUSE \/ other >= st.arena_size
                \/ st.arena[other].deleted
                \/ other = cref
                \/ Len(st.arena[other].lits) = 0
                \/ Len(st.arena[other].lits) > st.num_vars
                \/ resolvent_is_tautology(st, cref, other, var(blocking_lit))

\* slot i of clauses[] is eliminated by the scan
SlotBlocked(st, i) ==
    LET cref == st.clauses[i] IN
      /\ cref \notin {INVALID_CLAUSE, INDETERMINATE}
      /\ cref < st.arena_size
      /\ ~st.arena[cref].deleted
      /\ ~st.arena[cref].learned
      /\ \E j \in 1 .. Len(st.arena[cref].lits) :
            clause_is_blocked(st, cref, st.arena[cref].lits[j])

\* the variant that also takes the eliminated clauses out of the watch
\* lists, so that the search runs without them
solver_eliminate_blocked_clauses_unwatched(st) ==
    IF ~st.opts.bce THEN [st |-> st, eliminated |-> 0, indet |-> FALSE]
    ELSE LET scanned == { i \in 1 .. Len(st.clauses) : i <= st.num_original }
             blocked == { i \in scanned : SlotBlocked(st, i) }
         IN [st |-> [st EXCEPT !.clauses =
                        [i \in DOMAIN @ |->
                           IF i \in blocked THEN INVALID_CLAUSE ELSE @[i]],
                               !.watches =
                        [l \in DOMAIN @ |->
                           SelectSeq(@[l], LAMBDA w :
                              w.cref \notin { st.clauses[i] : i \in blocked })]],
             eliminated |-> Cardinality(blocked),
             indet |-> \E i \in 1 .. st.num_original :
                          i > Len(st.clauses) \/ st.clauses[i] = INDETERMINATE]

\* the scan runs over clauses[0 .. num_original-1], num_original being the
\* capacity of the array: the slots of binary clauses and the slots from
\* num_clauses on were never written, stay INDETERMINATE, and make the count
\* of eliminated clauses indeterminate as well (blocked_indet).
\* resolvent_is_tautology zeroes the seen array, which is all zero whenever
\* the scan runs (SeenIsClear)
solver_eliminate_blocked_clauses(st) ==
    IF ~st.opts.bce THEN [st |-> st, eliminated |-> 0, indet |-> FALSE]
    ELSE LET scanned == { i \in 1 .. Len(st.clauses) : i <= st.num_original }
             blocked == { i \in scanned : SlotBlocked(st, i) }
         IN [st |-> [st EXCEPT !.clauses =
                        [i \in DOMAIN @ |->
                           IF i \in blocked THEN INVALID_CLAUSE ELSE @[i]]],
             eliminated |-> Cardinality(blocked),
             indet |-> \E i \in 1 .. st.num_original :
                          i > Len(st.clauses) \/ st.clauses[i] = INDETERMINATE]

(***************************************************************************)
(* Initial state: solver_new_with_opts (solver.c 220-251)                  *)
(***************************************************************************)
solver_new_with_opts(opts) ==
    [ num_vars |-> 0, num_clauses |-> 0, num_original |-> 0,
      arena |-> <<>>, arena_size |-> 1, arena_capacity |-> INITIAL_CAPACITY,
      arena_wasted |-> 0,
      watches |-> watch_init(0), watch_alloc |-> {},
      vars |-> <<>>, trail |-> <<>>, qhead |-> 0, trail_lims |-> <<>>,
      decision_level |-> 0,
      clauses |-> <<>>, learnts |-> <<>>,
      heap |-> <<>>, var_inc |-> ActScale,
      seen |-> <<>>,
      stats |-> [ decisions |-> 0, propagations |-> 0, conflicts |-> 0,
                  restarts |-> 0, reduces |-> 0, learned_clauses |-> 0,
                  learned_literals |-> 0, deleted_clauses |-> 0,
                  subsumed_clauses |-> 0, minimized_literals |-> 0,
                  blocked_clauses |-> 0, blocked_indet |-> FALSE, max_lbd |-> 0, glue_clauses |-> 0 ],
      restart |-> [ conflicts_since |-> 0, threshold |-> opts.restart_first,
                    slow_ma |-> 0, fast_ma |-> 0 ],
      opts |-> opts,
      result |-> UNDEF ]

NoRet == [op |-> "none", val |-> 0]

NoCall == [repeat |-> FALSE, conflicts0 |-> 0, decisions0 |-> 0]

\* the option records the model runs with: the defaults, with the first
\* restart after 2 conflicts and decay factors 1/2 and 3/4 for the moving
\* averages (dyadic, so the averages are exact in double arithmetic)
ModelOpts ==
    { [default_opts EXCEPT !.restart_first = 2,
                           !.fast_alpha_num = 1, !.fast_alpha_den = 2,
                           !.slow_alpha_num = 3, !.slow_alpha_den = 4] }

Init ==
    /\ s \in { solver_new_with_opts(o) : o \in ModelOpts }
    /\ pc = "build"
    /\ conflict = INVALID_CLAUSE
    /\ assumps = <<>>
    /\ ret = NoRet
    /\ given = <<>>
    /\ call = NoCall

(***************************************************************************)
(* Building the formula                                                    *)
(***************************************************************************)
NewVar ==
    /\ pc = "build"
    /\ s.num_vars < MaxVars
    /\ s' = solver_new_var(s)
    /\ ret' = [op |-> "new_var", val |-> s.num_vars + 1]
    /\ UNCHANGED <<pc, conflict, assumps, given, call>>

AddClause ==
    /\ pc = "build"
    /\ Len(given) < MaxClauses
    /\ \E lits \in ClausePool :
          /\ \A i \in 1 .. Len(lits) : var(lits[i]) <= s.num_vars
          /\ LET r == solver_add_clause(s, lits) IN
                /\ s' = r.st
                /\ ret' = [op |-> "add_clause", val |-> r.ok]
                /\ given' = Append(given, [lits |-> lits, ok |-> r.ok])
    /\ UNCHANGED <<pc, conflict, assumps, call>>

(***************************************************************************)
(* solver_solve_with_assumptions (solver.c 1743-2035)                      *)
(***************************************************************************)
RECURSIVE AddAssumptions(_, _, _)
\* the loop that pushes the assumptions; returns [st, failed]
AddAssumptions(st, as, i) ==
    IF i > Len(as) THEN [st |-> st, failed |-> FALSE]
    ELSE LET a == as[i]
             v == var(a)
         IN IF st.vars[v].value = UNDEF
            THEN LET lvl == st.decision_level + 1
                     n == Len(st.trail)
                 IN AddAssumptions(
                        [st EXCEPT !.decision_level = lvl,
                                   !.trail_lims = (lvl :> n) @@ @,
                                   !.vars[v].value = IF sign(a) THEN LFALSE ELSE LTRUE,
                                   !.vars[v].level = lvl,
                                   !.vars[v].reason = INVALID_CLAUSE,
                                   !.vars[v].trail_pos = n,
                                   !.trail = Append(@, [lit |-> a, level |-> lvl])],
                        as, i + 1)
            ELSE IF LitFalse(st, a)
            THEN [st |-> [st EXCEPT !.result = LFALSE], failed |-> TRUE]
            ELSE AddAssumptions(st, as, i + 1)

\* the limits compared with > instead of >=
LimitPassed(st) ==
    \/ st.opts.max_conflicts # 0 /\ st.stats.conflicts > st.opts.max_conflicts
    \/ st.opts.max_decisions # 0 /\ st.stats.decisions > st.opts.max_decisions

\* the check of the resource limits at the end of a loop iteration
LimitHit(st) ==
    \/ st.opts.max_conflicts # 0 /\ st.stats.conflicts >= st.opts.max_conflicts
    \/ st.opts.max_decisions # 0 /\ st.stats.decisions >= st.opts.max_decisions

\* the cached verdict is returned for an UNSAT result only
AlreadyUnsat(st) == st.result = LFALSE

\* "Check if already solved"
AlreadySolved(st) == st.result # UNDEF

AssumpSeqs ==
    UNION { [1 .. n -> AssumpPool] : n \in 0 .. MaxAssumps }

SolveRet(v) == [op |-> "solve", val |-> v]

\* entry of solve up to the main loop: cached result, BCE, assumptions and
\* the initial propagation
SolveBegin ==
    /\ pc \in {"build", "returned"}
    /\ \E as \in AssumpSeqs :
        /\ \A i \in 1 .. Len(as) : var(as[i]) <= s.num_vars
        /\ assumps' = as
        /\ IF AlreadySolved(s)
           THEN /\ s' = s
                /\ ret' = SolveRet(s.result)
                /\ pc' = "returned"
                /\ conflict' = conflict
           ELSE LET b == solver_eliminate_blocked_clauses(s)
                    s1 == IF s.opts.bce
                          THEN [b.st EXCEPT !.stats.blocked_clauses = b.eliminated,
                                            !.stats.blocked_indet = b.indet]
                          ELSE s
                    a == AddAssumptions(s1, as, 1)
                    r == solver_propagate(a.st)
                IN IF a.failed
                   THEN /\ s' = a.st
                        /\ ret' = SolveRet(LFALSE)
                        /\ pc' = "returned"
                        /\ conflict' = conflict
                   ELSE IF r.conflict # INVALID_CLAUSE
                   THEN /\ s' = [r.st EXCEPT !.result = LFALSE]
                        /\ ret' = SolveRet(LFALSE)
                        /\ pc' = "returned"
                        /\ conflict' = r.conflict
                   ELSE /\ s' = r.st
                        /\ ret' = NoRet
                        /\ pc' = "propagate"
                        /\ conflict' = INVALID_CLAUSE
    /\ call' = [repeat |-> pc = "returned",
                conflicts0 |-> s.stats.conflicts,
                decisions0 |-> s.stats.decisions]
    /\ UNCHANGED given

\* top of the main loop: CRef conflict = solver_propagate(s)
Propagate ==
    /\ pc = "propagate"
    /\ LET r == solver_propagate(s) IN
         /\ s' = r.st
         /\ conflict' = r.conflict
         /\ pc' = IF r.conflict # INVALID_CLAUSE THEN "conflict" ELSE "decide"
    /\ UNCHANGED <<assumps, ret, given, call>>

\* the assignment of the asserting literal (solver.c 1894-1905, 1970-1981)
AssertLearnt(st, unit, lvl, reason) ==
    [st EXCEPT !.vars[var(unit)].value = IF sign(unit) THEN LFALSE ELSE LTRUE,
               !.vars[var(unit)].level = lvl,
               !.vars[var(unit)].reason = reason,
               !.vars[var(unit)].trail_pos = Len(st.trail),
               !.trail = Append(@, [lit |-> unit, level |-> lvl])]

\* the LBD bookkeeping of a stored learnt clause and its entry in learnts
RecordLbd(st, cref, lbd) ==
    [UpdateMA([st EXCEPT
                 !.arena[cref].lbd = lbd,
                 !.stats.max_lbd = IF lbd > @ THEN lbd ELSE @,
                 !.stats.glue_clauses = IF lbd <= st.opts.glue_lbd THEN @ + 1 ELSE @],
              lbd)
     EXCEPT !.learnts = Append(@, cref)]

\* subsumption, the two watches, the asserting literal and the counters
WatchAndAssert(st, cref, learnt, bl) ==
    [AssertLearnt(watch_add(watch_add(solver_on_the_fly_subsumption(st, learnt),
                                      learnt[1], cref, learnt[2]),
                            learnt[2], cref, learnt[1]),
                  learnt[1], bl, cref)
     EXCEPT !.stats.learned_clauses = @ + 1,
            !.stats.learned_literals = @ + Len(learnt)]

\* a non-unit learnt clause, given the result a of arena_alloc
LearnStored(a, learnt, bl) ==
    WatchAndAssert(RecordLbd(a.st, a.cref, calc_lbd(a.st, learnt)),
                   a.cref, learnt, bl)

\* insertion of the learnt clause after backtracking to level bl
LearnClause(st, learnt, bl) ==
    IF Len(learnt) = 1
    THEN UpdateMA(AssertLearnt(st, learnt[1], 0, INVALID_CLAUSE), 1)
    ELSE IF arena_alloc(st, learnt, Len(learnt), TRUE).cref = INVALID_CLAUSE THEN st
    ELSE LearnStored(arena_alloc(st, learnt, Len(learnt), TRUE), learnt, bl)

\* "Reduce clause database periodically"; stages holds the solver after the
\* backtrack (b), after the learnt clause is asserted (ln) and after the
\* restart test (st)
AfterRestart(b, ln, st) ==
    [st |-> IF st.stats.conflicts % st.opts.reduce_interval = 0
            THEN solver_reduce_db(st) ELSE st,
     trap |-> FALSE,
     stages |-> <<b, ln, st>>]

\* "Check for restart", given the result rs of solver_should_restart
RestartTest(b, ln, rs, n_assumps) ==
    AfterRestart(b, ln,
                 IF rs.restart
                 THEN [solver_backtrack(rs.st, n_assumps)
                       EXCEPT !.stats.restarts = @ + 1]
                 ELSE rs.st)

\* "Decay activities" and the restart test, after the learnt clause
AfterLearn(b, ln, n_assumps) ==
    RestartTest(b, ln, solver_should_restart(decay_var_inc(ln)), n_assumps)

\* "Add learned clause", given the result bt of the backtrack
AfterBacktrack(bt, learnt, n_assumps) ==
    AfterLearn(bt.st, LearnClause(bt.st, learnt, bt.level), n_assumps)

\* the backtrack, given the result mn of solver_minimize_clause
AfterMinimize(mn, original_size, bt_level, n_assumps) ==
    AfterBacktrack(
        solver_backtrack_chronological(
            [mn.st EXCEPT !.stats.minimized_literals =
                              @ + (original_size - Len(mn.learnt))],
            mn.learnt, bt_level),
        mn.learnt, n_assumps)

\* the minimization, given the result an of solver_analyze
AfterAnalyze(an, n_assumps) ==
    IF an.trap THEN [st |-> an.st, trap |-> TRUE, stages |-> <<>>]
    ELSE AfterMinimize(solver_minimize_clause(an.st, an.learnt),
                       Len(an.learnt), an.bt_level, n_assumps)

\* the part of the conflict branch after the level-0 test: analyze,
\* minimize, backtrack, learn, decay, restart, reduce
ConflictBody(st, cf, n_assumps) == AfterAnalyze(solver_analyze(st, cf), n_assumps)

\* "Check resource limits" at the end of an iteration: the solver, the
\* return value and where the caller is next
EndIteration(st, r) ==
    IF LimitHit(st)
    THEN [st |-> [st EXCEPT !.result = UNDEF], ret |-> SolveRet(UNDEF),
          pc |-> "returned"]
    ELSE [st |-> st, ret |-> r, pc |-> "propagate"]

\* the outcome of the conflict branch body c
ConflictOutcome(c, r) ==
    IF c.trap THEN [st |-> c.st, ret |-> r, pc |-> "trap"]
    ELSE EndIteration(c.st, r)

\* the conflict branch on the solver with its counters incremented
ConflictBranch(st, cf, n_assumps, r) ==
    IF st.decision_level = 0
    THEN [st |-> [st EXCEPT !.result = LFALSE], ret |-> SolveRet(LFALSE),
          pc |-> "returned"]
    ELSE ConflictOutcome(ConflictBody(st, cf, n_assumps), r)

\* the step to the outcome o of a loop iteration
StepTo(o) ==
    /\ s' = o.st
    /\ ret' = o.ret
    /\ pc' = o.pc

\* the conflict branch of the main loop, with the resource check after it
HandleConflict ==
    /\ pc = "conflict"
    /\ s.stats.conflicts < MaxConflicts
    /\ StepTo(ConflictBranch([s EXCEPT !.stats.conflicts = @ + 1,
                                      !.restart.conflicts_since = @ + 1],
                             conflict, Len(assumps), ret))
    /\ UNCHANGED <<conflict, assumps, given, call>>

\* the outcome of the no-conflict branch, given the result d of solver_decide
DecideBranch(d, r) ==
    IF ~d.decided
    THEN [st |-> [d.st EXCEPT !.result = LTRUE], ret |-> SolveRet(LTRUE),
          pc |-> "returned"]
    ELSE EndIteration(d.st, r)

\* the no-conflict branch of the main loop, with the resource check after it
Decide ==
    /\ pc = "decide"
    /\ StepTo(DecideBranch(solver_decide(s), ret))
    /\ UNCHANGED <<conflict, assumps, given, call>>

Next == NewVar \/ AddClause \/ SolveBegin \/ Propagate \/ HandleConflict \/ Decide

Spec == Init /\ [][Next]_vars

\* the run with resource limits: max_conflicts and max_decisions drawn from
\* 0 .. MaxLimit
MaxLimit == 2

LimitOpts ==
    { [o EXCEPT !.max_conflicts = c, !.max_decisions = d] :
        o \in ModelOpts, c \in 0 .. MaxLimit, d \in 0 .. MaxLimit }

InitLimits ==
    /\ s \in { solver_new_with_opts(o) : o \in LimitOpts }
    /\ pc = "build"
    /\ conflict = INVALID_CLAUSE
    /\ assumps = <<>>
    /\ ret = NoRet
    /\ given = <<>>
    /\ call = NoCall

SpecLimits == InitLimits /\ [][Next]_vars

(***************************************************************************)
(* Model access (solver.c 552-555)                                         *)
(***************************************************************************)
solver_model_value(st, v) == IF v > st.num_vars THEN UNDEF ELSE st.vars[v].value

ModelTrue(l) ==
    solver_model_value(s, var(l)) = (IF sign(l) THEN LFALSE ELSE LTRUE)

ModelSatisfies(lits) == \E i \in 1 .. Len(lits) : ModelTrue(lits[i])

Accepted == { i \in 1 .. Len(given) : given[i].ok }

ReturnedSat == pc = "returned" /\ ret = SolveRet(LTRUE)
ReturnedUnsat == pc = "returned" /\ ret = SolveRet(LFALSE)

\* some total assignment of the variables satisfies every clause handed in
Satisfiable ==
    \E a \in [1 .. s.num_vars -> BOOLEAN] :
        \A i \in 1 .. Len(given) :
            \E j \in 1 .. Len(given[i].lits) :
                a[var(given[i].lits[j])] = ~sign(given[i].lits[j])

SeenIsClear == pc # "trap" => \A v \in DOMAIN s.seen : s.seen[v] = 0
NoTrap == pc # "trap"

(***************************************************************************)
(* Properties                                                              *)
(***************************************************************************)
\* C1: whenever solve returns SAT, the values reported by solver_model_value
\* satisfy every clause that solver_add_clause accepted
C1_SatSound ==
    ReturnedSat => \A i \in Accepted : ModelSatisfies(given[i].lits)

\* a SAT answer after a conflict, with a unit clause, a binary clause and a
\* longer clause among the accepted ones
C1_Witness ==
    /\ ReturnedSat
    /\ s.stats.conflicts > 0
    /\ \A n \in 1 .. 3 : \E i \in Accepted : Len(given[i].lits) = n

\* C2: whenever a solve without assumptions, on a formula built with new_var
\* and add_clause only, returns UNSAT, no assignment satisfies the clauses
C2_UnsatSound ==
    (ReturnedUnsat /\ ~call.repeat /\ assumps = <<>>) => ~Satisfiable

C2_Witness ==
    ReturnedUnsat /\ ~call.repeat /\ assumps = <<>> /\ s.stats.conflicts > 1

\* C3: whenever solve returns SAT, every variable 1..num_vars has a value
\* other than UNDEF
C3_TotalModel ==
    ReturnedSat => \A v \in 1 .. s.num_vars : solver_model_value(s, v) # UNDEF

C3_Witness ==
    ReturnedSat /\ s.num_vars = MaxVars /\ s.stats.conflicts > 0

\* C4: whenever solve_with_assumptions returns SAT, every assumption passed
\* to that call is true in the model
C4_AssumptionsHold ==
    (ReturnedSat /\ ~call.repeat) =>
        \A i \in 1 .. Len(assumps) : ModelTrue(assumps[i])

C4_Witness ==
    ReturnedSat /\ ~call.repeat /\ assumps # <<>> /\ s.stats.conflicts > 0

\* C5: once result is SAT or UNSAT, a call of solve returns that verdict and
\* changes nothing of the solver
C5_Idempotent ==
    [][(call' # call /\ s.result # UNDEF)
         => (s' = s /\ ret' = SolveRet(s.result) /\ pc' = "returned")]_vars

C5_Witness ==
    /\ ReturnedUnsat
    /\ call.repeat
    /\ s.stats.conflicts > 0

C7_Limits ==
    [][/\ s'.opts.max_conflicts > 0
            => s'.stats.conflicts - call'.conflicts0 <= s'.opts.max_conflicts
       /\ s'.opts.max_decisions > 0
            => s'.stats.decisions - call'.decisions0 <= s'.opts.max_decisions
       /\ (pc \in {"conflict", "decide"} /\ LimitHit(s')
             /\ ret' \notin {SolveRet(LTRUE), SolveRet(LFALSE)})
            => (ret' = SolveRet(UNDEF) /\ s'.result = UNDEF /\ pc' = "returned")
       /\ (s'.opts.max_conflicts = 0 /\ s'.opts.max_decisions = 0)
            => ret' # SolveRet(UNDEF)]_vars

C7_Witness ==
    /\ pc = "returned"
    /\ ret = SolveRet(UNDEF)
    /\ s.opts.max_conflicts = MaxLimit
    /\ s.stats.conflicts = MaxLimit

\* one trail entry per assigned variable, none for an unassigned one, the
\* value that of the entry's literal, at most num_vars entries
TrailCoherent(st) ==
    /\ Len(st.trail) <= st.num_vars
    /\ \A v \in 1 .. st.num_vars :
          LET at == { i \in 1 .. Len(st.trail) : var(st.trail[i].lit) = v } IN
          IF st.vars[v].value = UNDEF THEN at = {}
          ELSE /\ Cardinality(at) = 1
               /\ \A i \in at : LitTrue(st, st.trail[i].lit)

\* the solver states inside the conflict branch that is about to run
StagesAhead ==
    IF pc = "conflict" /\ s.decision_level > 0
    THEN LET c == ConflictBody([s EXCEPT !.stats.conflicts = @ + 1,
                                         !.restart.conflicts_since = @ + 1],
                               conflict, Len(assumps))
         IN { c.stages[i] : i \in 1 .. Len(c.stages) }
    ELSE {}

C9_ReasonValid ==
    pc # "trap" =>
    \A v \in 1 .. s.num_vars :
        (s.vars[v].value # UNDEF /\ s.vars[v].reason # INVALID_CLAUSE) =>
            LET c == s.arena[s.vars[v].reason].lits IN
            /\ var(c[1]) = v
            /\ LitTrue(s, c[1])
            /\ \A j \in 2 .. Len(c) :
                  /\ LitFalse(s, c[j])
                  /\ s.vars[var(c[j])].trail_pos < s.vars[v].trail_pos

C9_Witness ==
    \E v \in 1 .. s.num_vars :
        /\ s.vars[v].value # UNDEF
        /\ s.vars[v].reason # INVALID_CLAUSE
        /\ s.arena[s.vars[v].reason].learned

\* the watches that reference arena clause cref, as <<list, position>>
WatchesOf(cref) ==
    { x \in UNION { { <<l, i>> : i \in 1 .. Len(s.watches[l]) } : l \in DOMAIN s.watches } :
        s.watches[x[1]][x[2]].cref = cref }

\* the binary watches with blocker b in the list of literal a
BinaryWatches(a, b) ==
    { i \in 1 .. Len(s.watches[a]) :
        s.watches[a][i] = [cref |-> INVALID_CLAUSE, blocker |-> b] }

\* the accepted binary clauses over the literals a and b
BinaryGiven(a, b) ==
    { i \in Accepted : given[i].lits \in { <<a, b>>, <<b, a>> } }

\* C10: every live arena clause of size >= 2 is referenced by exactly two
\* watches, in the lists of the literals at its positions 0 and 1, and every
\* accepted binary clause has one binary watch, with the other literal as
\* blocker, in the list of each of its two literals
C10_WatchInvariant ==
    pc # "trap" =>
    /\ \A cref \in DOMAIN s.arena :
          LET c == s.arena[cref] IN
          (~c.deleted /\ Len(c.lits) >= 2) =>
              /\ Cardinality(WatchesOf(cref)) = 2
              /\ \E x \in WatchesOf(cref) : x[1] = At(c.lits, 0)
              /\ \E x \in WatchesOf(cref) : x[1] = At(c.lits, 1)
    /\ \A i \in Accepted :
          Len(given[i].lits) = 2 =>
              LET a == given[i].lits[1]
                  b == given[i].lits[2]
              IN /\ Cardinality(BinaryWatches(a, b)) = Cardinality(BinaryGiven(a, b))
                 /\ Cardinality(BinaryWatches(b, a)) = Cardinality(BinaryGiven(a, b))

\* a search that has handled a conflict while holding a long clause and a
\* binary clause
C10_Witness ==
    /\ pc = "propagate"
    /\ s.stats.conflicts > 0
    /\ \E cref \in DOMAIN s.arena : ~s.arena[cref].deleted
    /\ \E i \in Accepted : Len(given[i].lits) = 2


(***************************************************************************)
(* The order heap on its own: heap_insert, heap_remove, heap_extract_max   *)
(* and bump_var_activity applied in any order to a solver of HeapVars      *)
(* variables                                                               *)
(***************************************************************************)
MaxActivity == 1
HeapVars == MaxVars + 1

\* the increments of a bump: a small one, and one of the size of the
\* rescale limit
BumpIncs == { 1, RESCALE_LIMIT }

RECURSIVE NewVars(_, _)
\* n calls of solver_new_var
NewVars(st, n) == IF n = 0 THEN st ELSE NewVars(solver_new_var(st), n - 1)

InitHeap ==
    /\ s = NewVars(solver_new_with_opts(default_opts), HeapVars)
    /\ pc = "heap"
    /\ conflict = INVALID_CLAUSE
    /\ assumps = <<>>
    /\ ret = NoRet
    /\ given = <<>>
    /\ call = NoCall

HeapInsert ==
    /\ pc = "heap"
    /\ \E v \in 1 .. s.num_vars : s' = heap_insert(s, v)
    /\ ret' = [op |-> "heap_insert", val |-> 0]
    /\ UNCHANGED <<pc, conflict, assumps, given, call>>

HeapRemove ==
    /\ pc = "heap"
    /\ \E v \in 1 .. s.num_vars : s' = heap_remove(s, v)
    /\ ret' = [op |-> "heap_remove", val |-> 0]
    /\ UNCHANGED <<pc, conflict, assumps, given, call>>

HeapExtractMax ==
    /\ pc = "heap"
    /\ s' = heap_extract_max(s).st
    /\ ret' = [op |-> "heap_extract_max", val |-> heap_extract_max(s).v]
    /\ UNCHANGED <<pc, conflict, assumps, given, call>>

BumpVarActivity ==
    /\ pc = "heap"
    /\ \E v \in 1 .. s.num_vars, inc \in BumpIncs :
          /\ \/ inc = 1 /\ (s.vars[v].activity < MaxActivity
                             \/ s.vars[v].activity >= RESCALE_LIMIT)
             \/ inc = RESCALE_LIMIT /\ s.vars[v].activity <= RESCALE_LIMIT
          /\ s' = bump_var_activity(s, v, inc)
    /\ ret' = [op |-> "bump_var_activity", val |-> 0]
    /\ UNCHANGED <<pc, conflict, assumps, given, call>>

NextHeap == HeapInsert \/ HeapRemove \/ HeapExtractMax \/ BumpVarActivity

SpecHeap == InitHeap /\ [][NextHeap]_vars

\* the variables in the order heap of st
HeapMembers(st) == { At(st.heap, i) : i \in 0 .. Len(st.heap) - 1 }

\* C11: the order heap holds each variable at most once, heap_pos[v] = i
\* exactly when heap[i] = v with i < size, heap_pos[v] is the absent mark
\* exactly when v is not in the heap, and no child has a larger activity
\* than its parent, after any sequence of heap operations and bumps,
\* rescaling included
C11_HeapWellFormed ==
    /\ \A i, j \in 0 .. Len(s.heap) - 1 :
          i # j => At(s.heap, i) # At(s.heap, j)
    /\ \A v \in 1 .. s.num_vars :
          /\ s.vars[v].heap_pos \in { HEAP_NONE } \cup (0 .. Len(s.heap) - 1)
          /\ \A i \in 0 .. Len(s.heap) - 1 :
                (s.vars[v].heap_pos = i) <=> (At(s.heap, i) = v)
          /\ (s.vars[v].heap_pos = HEAP_NONE) <=> (v \notin HeapMembers(s))
    /\ \A i \in 1 .. Len(s.heap) - 1 :
          s.vars[At(s.heap, heap_parent(i))].activity
              >= s.vars[At(s.heap, i)].activity

\* after a rescaling (var_inc has been scaled down), a heap of three levels
\* whose activities decrease strictly along a branch
C11_Witness ==
    /\ pc = "heap"
    /\ s.var_inc < ActScale
    /\ Len(s.heap) >= 4
    /\ s.vars[At(s.heap, 0)].activity > s.vars[At(s.heap, 1)].activity
    /\ s.vars[At(s.heap, 1)].activity > s.vars[At(s.heap, 3)].activity

(***************************************************************************)
(* Order heap and learnt clauses during the search                         *)
(***************************************************************************)
\* C12: between the operations of the solver (new_var, add_clause, and the
\* propagate, decide and backtrack steps of a solve) every variable whose
\* value is UNDEF is a member of the order heap
C12_HeapCoverage ==
    pc # "trap" =>
    \A v \in 1 .. s.num_vars :
        s.vars[v].value = UNDEF => s.vars[v].heap_pos # HEAP_NONE

\* after a backtrack that unassigned a decided variable: conflicts have been
\* handled, a variable is unassigned and in the heap again while another
\* one is assigned and extracted
C12_Witness ==
    /\ pc = "propagate"
    /\ s.stats.conflicts > 0
    /\ s.stats.decisions > 1
    /\ \E v \in 1 .. s.num_vars :
          s.vars[v].value = UNDEF /\ s.vars[v].heap_pos # HEAP_NONE
    /\ \E v \in 1 .. s.num_vars :
          s.vars[v].value # UNDEF /\ s.vars[v].heap_pos = HEAP_NONE

\* the learnt clauses stored by the step from s to s'
NewLearnts == { c \in DOMAIN s'.arena \ DOMAIN s.arena : s'.arena[c].learned }

\* the number of distinct decision levels > 0 of the literals lits in st
DistinctLevels(st, lits) ==
    Cardinality({ st.vars[var(lits[i])].level : i \in 1 .. Len(lits) } \ { 0 })

\* C13: the LBD recorded for a learnt clause is the number of distinct
\* decision levels > 0 of its literals at the time of the conflict, hence at
\* most the size of the clause and at least 1
C13_LbdExact ==
    [][\A c \in NewLearnts :
          /\ s'.arena[c].lbd = DistinctLevels(s, s'.arena[c].lits)
          /\ s'.arena[c].lbd <= Len(s'.arena[c].lits)
          /\ s'.arena[c].lbd >= 1]_vars

\* a stored learnt clause with its recorded LBD
C13_Witness ==
    \E c \in DOMAIN s.arena :
        /\ s.arena[c].learned
        /\ Len(s.arena[c].lits) >= 2
        /\ s.arena[c].lbd >= 1

\* the recorded LBD of every learnt clause is between 1 and its size
LbdInRange ==
    \A c \in DOMAIN s.arena :
        s.arena[c].learned =>
            s.arena[c].lbd >= 1 /\ s.arena[c].lbd <= Len(s.arena[c].lits)

(***************************************************************************)
(* Bounded variable elimination (elim.c).  The ElimState of elim.h is the  *)
(* field elim of the solver record: occs (one list of clause references    *)
(* per literal), stack (the entries [evar, clause] in push order),          *)
(* eliminated and the counters.                                            *)
(***************************************************************************)
\* elim_init
ElimNew(st) ==
    [ occs |-> [l \in 0 .. 2 * (st.num_vars + 1) - 1 |-> <<>>],
      stack |-> <<>>,
      eliminated |-> [v \in 0 .. st.num_vars |-> FALSE],
      vars_eliminated |-> 0, clauses_removed |-> 0, resolvents_added |-> 0,
      resolvent_crefs |-> <<>> ]

elim_add_occ(st, lit, cref) ==
    IF lit \notin DOMAIN st.elim.occs THEN st
    ELSE [st EXCEPT !.elim.occs[lit] = Append(@, cref)]

\* the first position of cref in the list occ, or 0
OccIndex(occ, cref) ==
    IF \E i \in 1 .. Len(occ) : occ[i] = cref
    THEN CHOOSE i \in 1 .. Len(occ) :
            occ[i] = cref /\ \A j \in 1 .. i - 1 : occ[j] # cref
    ELSE 0

\* "Swap with last and shrink"
elim_remove_occ(st, lit, cref) ==
    IF lit \notin DOMAIN st.elim.occs \/ OccIndex(st.elim.occs[lit], cref) = 0
    THEN st
    ELSE [st EXCEPT !.elim.occs[lit] =
              Prefix([st.elim.occs[lit]
                          EXCEPT ![OccIndex(st.elim.occs[lit], cref)] =
                                     st.elim.occs[lit][Len(st.elim.occs[lit])]],
                     Len(st.elim.occs[lit]) - 1)]

RECURSIVE AddOccs(_, _, _, _)
\* elim_add_occ for the literals lits[i ..] of clause cref
AddOccs(st, lits, cref, i) ==
    IF i > Len(lits) THEN st
    ELSE AddOccs(elim_add_occ(st, lits[i], cref), lits, cref, i + 1)

RECURSIVE BuildOccs(_, _)
\* the loop of elim_build_occs over clauses[i ..]; a slot that holds no
\* reference is passed over
BuildOccs(st, i) ==
    IF i >= st.num_clauses THEN st
    ELSE IF At(st.clauses, i) \in { INVALID_CLAUSE, INDETERMINATE }
            \/ st.arena[At(st.clauses, i)].deleted
    THEN BuildOccs(st, i + 1)
    ELSE BuildOccs(AddOccs(st, st.arena[At(st.clauses, i)].lits,
                           At(st.clauses, i), 1), i + 1)

\* elim_clear_occs, then the loop over the clauses array (the loop over the
\* binary watches adds nothing)
elim_build_occs(st) ==
    BuildOccs([st EXCEPT !.elim.occs = [l \in DOMAIN @ |-> <<>>]], 0)

elim_is_tautology(c1, c2, pivot) ==
    \E i \in 1 .. Len(c1), j \in 1 .. Len(c2) :
        /\ var(c1[i]) # pivot
        /\ var(c2[j]) # pivot
        /\ var(c1[i]) = var(c2[j])
        /\ sign(c1[i]) # sign(c2[j])

\* the first position in result of a literal of variable x, or 0
FirstOfVar(result, x) ==
    IF \E k \in 1 .. Len(result) : var(result[k]) = x
    THEN CHOOSE k \in 1 .. Len(result) :
            var(result[k]) = x /\ \A m \in 1 .. k - 1 : var(result[m]) # x
    ELSE 0

RECURSIVE ResolventLoop(_, _, _, _)
\* the second loop of compute_resolvent over c2[j ..]: a literal whose
\* variable is in result already is dropped (same sign) or ends the loop
\* with a tautology (opposite sign)
ResolventLoop(result, c2, pivot, j) ==
    IF j > Len(c2) THEN [taut |-> FALSE, lits |-> result]
    ELSE IF var(c2[j]) = pivot THEN ResolventLoop(result, c2, pivot, j + 1)
    ELSE IF FirstOfVar(result, var(c2[j])) # 0
    THEN IF sign(result[FirstOfVar(result, var(c2[j]))]) # sign(c2[j])
         THEN [taut |-> TRUE, lits |-> <<>>]
         ELSE ResolventLoop(result, c2, pivot, j + 1)
    ELSE ResolventLoop(Append(result, c2[j]), c2, pivot, j + 1)

\* the literals of c that are not of the pivot
WithoutPivot(c, pivot) == SelectSeq(c, LAMBDA l : var(l) # pivot)

\* compute_resolvent: [taut, lits]
compute_resolvent(c1, c2, pivot) ==
    ResolventLoop(WithoutPivot(c1, pivot), c2, pivot, 1)

\* a unit resolvent: "Propagate immediately at level 0"
ElimUnit(st, unit) ==
    [st EXCEPT !.vars[var(unit)].value = IF sign(unit) THEN LFALSE ELSE LTRUE,
               !.vars[var(unit)].level = 0,
               !.vars[var(unit)].reason = INVALID_CLAUSE,
               !.vars[var(unit)].trail_pos = Len(st.trail),
               !.trail = Append(@, [lit |-> unit, level |-> 0]),
               !.elim.resolvents_added = @ + 1]

\* the positions (0-based, ascending) of the unassigned literals of lits
UnassignedAt(st, lits) ==
    SelectSeq([k \in 1 .. Len(lits) |-> k - 1],
              LAMBDA k : st.vars[var(At(lits, k))].value = UNDEF)

\* "Move unassigned literals to front for proper watching"
ResolventOrder(lits, first_unassigned, second_unassigned) ==
    IF first_unassigned # 0
    THEN Swap(Swap(lits, 0, first_unassigned), 1,
              IF second_unassigned = 0 THEN first_unassigned
              ELSE second_unassigned)
    ELSE IF second_unassigned # 1 THEN Swap(lits, 1, second_unassigned)
    ELSE lits

\* "Add resolvent clause", given the result a of arena_alloc
StoreResolvent(a, lits) ==
    IF a.cref = INVALID_CLAUSE THEN [st |-> a.st, unsat |-> FALSE]
    ELSE [st |-> [watch_add(watch_add(AddOccs(a.st, lits, a.cref, 1),
                                      At(lits, 0), a.cref, At(lits, 1)),
                            At(lits, 1), a.cref, At(lits, 0))
                  EXCEPT !.elim.resolvent_crefs = Append(@, a.cref),
                         !.elim.resolvents_added = @ + 1],
          unsat |-> FALSE]

\* a resolvent of two or more literals, ua the positions of its unassigned
\* literals
LongResolvent(st, res, ua) ==
    IF \E k \in 1 .. Len(res) : LitTrue(st, res[k])
    THEN [st |-> st, unsat |-> FALSE]
    ELSE IF Len(ua) = 0
    THEN [st |-> [st EXCEPT !.result = LFALSE], unsat |-> TRUE]
    ELSE IF Len(ua) = 1
    THEN [st |-> ElimUnit(st, At(res, ua[1])), unsat |-> FALSE]
    ELSE StoreResolvent(
             arena_alloc(st, ResolventOrder(res, ua[1], ua[2]), Len(res), FALSE),
             ResolventOrder(res, ua[1], ua[2]))

\* what elim_eliminate_var does with one resolvent res: [st, unsat]
AddResolvent(st, res) ==
    IF Len(res) = 0
    THEN [st |-> [st EXCEPT !.result = LFALSE], unsat |-> TRUE]
    ELSE IF Len(res) = 1
    THEN IF st.vars[var(res[1])].value = UNDEF
         THEN [st |-> ElimUnit(st, res[1]), unsat |-> FALSE]
         ELSE IF LitFalse(st, res[1])
         THEN [st |-> [st EXCEPT !.result = LFALSE], unsat |-> TRUE]
         ELSE [st |-> st, unsat |-> FALSE]
    ELSE LongResolvent(st, res, UnassignedAt(st, res))

RECURSIVE ResolveLoop(_, _, _, _, _, _)
\* "Generate all resolvents": the loops over pos_occs[i ..] and neg_occs[j ..], the
\* occurrence lists of v and its negation; a is [st, unsat]
ResolveLoop(a, v, pos_occs, neg_occs, i, j) ==
    IF a.unsat \/ i > Len(pos_occs) THEN a
    ELSE IF a.st.arena[pos_occs[i]].deleted \/ j > Len(neg_occs)
    THEN ResolveLoop(a, v, pos_occs, neg_occs, i + 1, 1)
    ELSE IF a.st.arena[neg_occs[j]].deleted
            \/ compute_resolvent(a.st.arena[pos_occs[i]].lits,
                                 a.st.arena[neg_occs[j]].lits, v).taut
    THEN ResolveLoop(a, v, pos_occs, neg_occs, i, j + 1)
    ELSE ResolveLoop(
             AddResolvent(a.st, compute_resolvent(a.st.arena[pos_occs[i]].lits,
                                                  a.st.arena[neg_occs[j]].lits, v).lits),
             v, pos_occs, neg_occs, i, j + 1)

RECURSIVE RemoveOccs(_, _, _, _, _)
\* elim_remove_occ for the literals lits[j ..] of clause cref that are not
\* of v
RemoveOccs(st, v, lits, cref, j) ==
    IF j > Len(lits) THEN st
    ELSE RemoveOccs(IF var(lits[j]) # v THEN elim_remove_occ(st, lits[j], cref)
                    ELSE st,
                    v, lits, cref, j + 1)

RECURSIVE DeleteOccs(_, _, _, _)
\* "Delete original clauses containing v": the loop over occ[i ..]
DeleteOccs(st, v, occ, i) ==
    IF i > Len(occ) THEN st
    ELSE IF st.arena[occ[i]].deleted THEN DeleteOccs(st, v, occ, i + 1)
    ELSE DeleteOccs(
             [arena_delete(RemoveOccs(st, v, st.arena[occ[i]].lits, occ[i], 1),
                           occ[i])
              EXCEPT !.elim.clauses_removed = @ + 1],
             v, occ, i + 1)

\* "Save one positive clause for reconstruction", "If no positive clause,
\* try negative"; <<>> is the NULL clause
SavedClause(st, pos_occs, neg_occs) ==
    IF Len(pos_occs) > 0 /\ ~st.arena[pos_occs[1]].deleted THEN st.arena[pos_occs[1]].lits
    ELSE IF Len(neg_occs) > 0 /\ ~st.arena[neg_occs[1]].deleted THEN st.arena[neg_occs[1]].lits
    ELSE <<>>

\* the end of elim_eliminate_var: the occurrence lists of v are cleared, v
\* is marked and the entry is pushed
MarkEliminated(st, v, entry) ==
    [st EXCEPT !.elim.occs[mkLit(v, FALSE)] = <<>>,
               !.elim.occs[mkLit(v, TRUE)] = <<>>,
               !.elim.eliminated[v] = TRUE,
               !.elim.vars_eliminated = @ + 1,
               !.elim.stack = Append(@, entry)]

\* the part of elim_eliminate_var after the resolvents; a is the result of
\* ResolveLoop
AfterResolve(a, v, pos_occs, neg_occs, entry) ==
    IF a.unsat THEN [st |-> a.st, ok |-> FALSE]
    ELSE [st |-> MarkEliminated(DeleteOccs(DeleteOccs(a.st, v, pos_occs, 1), v, neg_occs, 1),
                                v, entry),
          ok |-> TRUE]

\* returns the solver and the boolean result
elim_eliminate_var(st, v) ==
    IF st.elim.eliminated[v] \/ st.vars[v].value # UNDEF
    THEN [st |-> st, ok |-> FALSE]
    ELSE AfterResolve(
             ResolveLoop([st |-> st, unsat |-> FALSE], v,
                         st.elim.occs[mkLit(v, FALSE)],
                         st.elim.occs[mkLit(v, TRUE)], 1, 1),
             v, st.elim.occs[mkLit(v, FALSE)], st.elim.occs[mkLit(v, TRUE)],
             [evar |-> v,
              clause |-> SavedClause(st, st.elim.occs[mkLit(v, FALSE)],
                                     st.elim.occs[mkLit(v, TRUE)])])

\* the value elim_extend_model gives the variable of a stack entry
ExtendValue(st, entry) ==
    IF Len(entry.clause) = 0 THEN LTRUE
    ELSE IF \E j \in 1 .. Len(entry.clause) :
               var(entry.clause[j]) # entry.evar /\ LitTrue(st, entry.clause[j])
    THEN LTRUE
    ELSE IF \E j \in 1 .. Len(entry.clause) : var(entry.clause[j]) = entry.evar
    THEN LET j == CHOOSE j \in 1 .. Len(entry.clause) :
                     /\ var(entry.clause[j]) = entry.evar
                     /\ \A k \in j + 1 .. Len(entry.clause) :
                           var(entry.clause[k]) # entry.evar
         IN IF sign(entry.clause[j]) THEN LFALSE ELSE LTRUE
    ELSE LTRUE

RECURSIVE ExtendLoop(_, _)
\* "Process elimination stack in reverse order", from entry i down
ExtendLoop(st, i) ==
    IF i < 1 THEN st
    ELSE ExtendLoop([st EXCEPT !.vars[st.elim.stack[i].evar].value =
                                   ExtendValue(st, st.elim.stack[i])],
                    i - 1)

elim_extend_model(st) == ExtendLoop(st, Len(st.elim.stack))

\* elim_init and elim_build_occs on the formula built so far.  A slot of
\* clauses[] below num_clauses that was never written holds an
\* indeterminate value: the read passes it over or goes astray
ElimInit ==
    /\ pc = "build"
    /\ s.num_vars > 0
    /\ \/ /\ s' = elim_build_occs([elim |-> ElimNew(s)] @@ s)
          /\ pc' = "elim"
       \/ /\ \E i \in 0 .. s.num_clauses - 1 : At(s.clauses, i) = INDETERMINATE
          /\ s' = s
          /\ pc' = "trap"
    /\ ret' = [op |-> "elim_build_occs", val |-> 0]
    /\ UNCHANGED <<conflict, assumps, given, call>>

ElimEliminateVar ==
    /\ pc = "elim"
    /\ s.result # LFALSE
    /\ \E v \in 1 .. s.num_vars :
          /\ s' = elim_eliminate_var(s, v).st
          /\ ret' = [op |-> "elim_eliminate_var", val |-> elim_eliminate_var(s, v).ok]
    /\ UNCHANGED <<pc, conflict, assumps, given, call>>

\* the variables a model of the remaining clauses has to assign
FreeVars(st) ==
    { v \in 1 .. st.num_vars :
        st.vars[v].value = UNDEF /\ ~st.elim.eliminated[v] }

\* st satisfies every clause that remains: the arena clauses not deleted
\* (resolvents included) and the unit and binary clauses handed in
RemainingSatisfied(st) ==
    /\ \A c \in DOMAIN st.arena :
          ~st.arena[c].deleted =>
              \E k \in 1 .. Len(st.arena[c].lits) : LitTrue(st, st.arena[c].lits[k])
    /\ \A i \in Accepted :
          Len(given[i].lits) <= 2 =>
              \E k \in 1 .. Len(given[i].lits) : LitTrue(st, given[i].lits[k])

\* the search on the remaining clauses ends with a model of them: the
\* variables not eliminated all have a value
ElimModel ==
    /\ pc = "elim"
    /\ s.result # LFALSE
    /\ s.elim.vars_eliminated > 0
    /\ \E m \in [FreeVars(s) -> { LFALSE, LTRUE }] :
          /\ s' = [s EXCEPT !.vars = [v \in DOMAIN @ |->
                                         IF v \in FreeVars(s)
                                         THEN [@[v] EXCEPT !.value = m[v]]
                                         ELSE @[v]]]
          /\ RemainingSatisfied(s')
    /\ pc' = "model"
    /\ ret' = [op |-> "solve", val |-> LTRUE]
    /\ UNCHANGED <<conflict, assumps, given, call>>

ElimExtendModel ==
    /\ pc = "model"
    /\ s' = elim_extend_model(s)
    /\ pc' = "extended"
    /\ ret' = [op |-> "elim_extend_model", val |-> 0]
    /\ UNCHANGED <<conflict, assumps, given, call>>

NextElim ==
    NewVar \/ AddClause \/ ElimInit \/ ElimEliminateVar \/ ElimModel
        \/ ElimExtendModel

SpecElim == Init /\ [][NextElim]_vars

\* C14: after variables were eliminated and a model of the remaining
\* clauses was found, the model as extended by elim_extend_model satisfies
\* every clause that was handed in before the elimination, the deleted
\* clauses of the eliminated variables included
C14_ExtendedModel ==
    pc = "extended" => \A i \in Accepted : ModelSatisfies(given[i].lits)

\* an extended model after the elimination of a variable that occurred in
\* both polarities, with both of its clauses deleted
C14_Witness ==
    /\ pc = "extended"
    /\ \E v \in 1 .. s.num_vars :
          /\ s.elim.eliminated[v]
          /\ \E c \in DOMAIN s.arena :
                s.arena[c].deleted /\ \E k \in 1 .. Len(s.arena[c].lits) :
                    s.arena[c].lits[k] = mkLit(v, FALSE)
          /\ \E c \in DOMAIN s.arena :
                s.arena[c].deleted /\ \E k \in 1 .. Len(s.arena[c].lits) :
                    s.arena[c].lits[k] = mkLit(v, TRUE)

(***************************************************************************)
(* The arena on its own (arena.c): arena_init, then arena_alloc,           *)
(* arena_delete, set_clause_lbd and arena_gc in any order.  s holds the    *)
(* fields of the Arena and the caller's clause array and watch arrays that *)
(* arena_gc is handed; given is the list of the allocations that           *)
(* succeeded, each at the place its clause has now.                        *)
(***************************************************************************)
MaxAllocs == 3

\* the capacities handed to arena_init: 0 (the default), the smallest one,
\* the one of test_arena_growth and one that three clauses of the largest
\* size outgrow
ArenaCapacities == { 0, 1, 16, 536870912 }

\* the clauses handed to arena_alloc.  The last one has the largest size
\* the header can hold; of its literal block the model keeps the first two
\* literals
ArenaRequests ==
    { [lits |-> <<>>, size |-> 0, learned |-> FALSE],
      [lits |-> <<mkLit(1, FALSE), mkLit(2, TRUE)>>, size |-> 2, learned |-> TRUE],
      [lits |-> <<mkLit(1, TRUE), mkLit(2, FALSE), mkLit(3, FALSE)>>, size |-> 3,
       learned |-> FALSE],
      [lits |-> <<mkLit(1, FALSE), mkLit(2, TRUE)>>, size |-> MAX_CLAUSE_SIZE,
       learned |-> TRUE] }

arena_init(initial_capacity) ==
    [ arena |-> <<>>, arena_size |-> 1,
      arena_capacity |-> IF initial_capacity = 0 THEN INITIAL_CAPACITY
                         ELSE initial_capacity,
      arena_wasted |-> 0,
      clauses |-> <<>>, num_clauses |-> 0, gc_watches |-> << <<>> >> ]

set_clause_lbd(st, cref, lbd) == [st EXCEPT !.arena[cref].lbd = lbd]

RECURSIVE GcWalk(_, _, _)
\* "Compact arena": the loop from src on; g is [reloc, arena, dest]
GcWalk(st, g, src) ==
    IF src >= st.arena_size THEN g
    ELSE IF ~st.arena[src].deleted
    THEN GcWalk(st,
                [reloc |-> (src :> g.dest) @@ g.reloc,
                 arena |-> (g.dest :> st.arena[src]) @@ g.arena,
                 dest |-> g.dest + HeaderWords + st.arena[src].size],
                src + HeaderWords + st.arena[src].size)
    ELSE GcWalk(st, [g EXCEPT !.reloc = (src :> INVALID_CLAUSE) @@ @],
                src + HeaderWords + st.arena[src].size)

\* the relocation map, the compacted clauses and the new size
Compacted(st) == GcWalk(st, [reloc |-> <<>>, arena |-> <<>>, dest |-> 1], 1)

\* "Update clause array": the references whose clause was kept, rewritten
RelocRefs(reloc, refs) ==
    LET kept == SelectSeq(refs, LAMBDA c : reloc[c] # INVALID_CLAUSE)
    IN [i \in 1 .. Len(kept) |-> reloc[kept[i]]]

\* arena->wasted * 4 < arena->size, in size_t arithmetic (no overflow):
\* 4w < n exactly when w < ceiling(n / 4)
GcSkipped(st) == st.arena_wasted < (st.arena_size + 3) \div 4

\* arena_gc(arena, watches, num_watches, clauses, num_clauses): the loop
\* over the watch arrays runs to watch_size = 0, so it rewrites nothing
arena_gc(st) ==
    IF GcSkipped(st) THEN st
    ELSE [st EXCEPT !.arena = Compacted(st).arena,
                    !.clauses = RelocRefs(Compacted(st).reloc,
                                          Prefix(@, st.num_clauses)),
                    !.num_clauses = Len(RelocRefs(Compacted(st).reloc,
                                                  Prefix(st.clauses, st.num_clauses))),
                    !.arena_size = Compacted(st).dest,
                    !.arena_wasted = 0]

InitArena ==
    /\ s \in { arena_init(c) : c \in ArenaCapacities }
    /\ pc = "arena"
    /\ conflict = INVALID_CLAUSE
    /\ assumps = <<>>
    /\ ret = NoRet
    /\ given = <<>>
    /\ call = NoCall

\* arena_alloc; the caller keeps the reference in its clause array and in
\* a watch array
ArenaAlloc ==
    /\ pc = "arena"
    /\ Len(s.gc_watches[1]) < MaxAllocs
    /\ \E r \in ArenaRequests :
          LET a == arena_alloc(s, r.lits, r.size, r.learned) IN
          IF ~a.returns
          THEN /\ pc' = "hang"
               /\ ret' = [op |-> "arena_alloc", val |-> r]
               /\ UNCHANGED <<s, given>>
          ELSE IF a.cref = INVALID_CLAUSE
          THEN /\ s' = a.st
               /\ ret' = [op |-> "arena_alloc", val |-> r, cref |-> a.cref]
               /\ UNCHANGED <<pc, given>>
          ELSE /\ s' = [a.st EXCEPT !.clauses = Append(Prefix(@, s.num_clauses), a.cref),
                                    !.num_clauses = @ + 1,
                                    !.gc_watches[1] = Append(@, a.cref)]
               /\ ret' = [op |-> "arena_alloc", val |-> r, cref |-> a.cref]
               /\ given' = Append(given, r @@ [cref |-> a.cref,
                                                deleted |-> FALSE, lbd |-> 0])
               /\ pc' = pc
    /\ UNCHANGED <<conflict, assumps, call>>

ArenaDelete ==
    /\ pc = "arena"
    /\ \E cref \in DOMAIN s.arena \cup { INVALID_CLAUSE } :
          /\ s' = arena_delete(s, cref)
          /\ ret' = [op |-> "arena_delete", val |-> cref]
          /\ given' = [i \in 1 .. Len(given) |->
                          IF given[i].cref = cref
                          THEN [given[i] EXCEPT !.deleted = TRUE] ELSE given[i]]
    /\ UNCHANGED <<pc, conflict, assumps, call>>

ArenaSetLbd ==
    /\ pc = "arena"
    /\ \E cref \in DOMAIN s.arena :
          /\ s.arena[cref].lbd = 0
          /\ s' = set_clause_lbd(s, cref, 2)
          /\ ret' = [op |-> "set_clause_lbd", val |-> cref]
          /\ given' = [i \in 1 .. Len(given) |->
                          IF given[i].cref = cref
                          THEN [given[i] EXCEPT !.lbd = 2] ELSE given[i]]
    /\ UNCHANGED <<pc, conflict, assumps, call>>

\* the allocations of the live clauses, at their new places
GivenAfterGc(st) ==
    LET kept == SelectSeq(given, LAMBDA e : ~e.deleted)
    IN [i \in 1 .. Len(kept) |->
           [kept[i] EXCEPT !.cref = Compacted(st).reloc[kept[i].cref]]]

ArenaGc ==
    /\ pc = "arena"
    /\ s' = arena_gc(s)
    /\ ret' = [op |-> "arena_gc", val |-> 0]
    /\ given' = IF GcSkipped(s) THEN given
                ELSE GivenAfterGc(s)
    /\ UNCHANGED <<pc, conflict, assumps, call>>

NextArena == ArenaAlloc \/ ArenaDelete \/ ArenaSetLbd \/ ArenaGc

SpecArena == InitArena /\ [][NextArena]_vars

\* the words a clause of the arena takes
ClauseWords(c) == HeaderWords + c.size

\* C15: the references returned by arena_alloc are distinct, none is 0 or
\* INVALID_CLAUSE, and each clause reads back with the size, the literals
\* and the learned flag it was given, not deleted, LBD 0 and activity 0
\* until set; no clause overlaps another one or the end of the store
C15_AllocRoundTrip ==
    pc = "arena" =>
    /\ \A i, j \in 1 .. Len(given) : i # j => given[i].cref # given[j].cref
    /\ \A i \in 1 .. Len(given) :
          LET e == given[i] IN
          /\ e.cref \notin { 0, INVALID_CLAUSE }
          /\ e.cref \in DOMAIN s.arena
          /\ s.arena[e.cref] = [lits |-> e.lits, size |-> e.size,
                                learned |-> e.learned, deleted |-> e.deleted,
                                lbd |-> e.lbd, activity |-> 0]
          /\ e.cref + ClauseWords(s.arena[e.cref]) <= s.arena_size
          /\ \A j \in 1 .. Len(given) :
                given[j].cref > e.cref =>
                    e.cref + ClauseWords(s.arena[e.cref]) <= given[j].cref
    /\ s.arena_size <= s.arena_capacity

\* three allocations, one of size 0 and one that grew the store
C15_Witness ==
    /\ pc = "arena"
    /\ Len(given) = 3
    /\ \E i \in 1 .. 3 : given[i].size = 0
    /\ \E i \in 1 .. 3 : given[i].size = 3
    /\ s.arena_capacity \notin ArenaCapacities \cup { INITIAL_CAPACITY }

RECURSIVE SumWords(_, _)
\* the words taken by the clauses of st at the references in refs
SumWords(st, refs) ==
    IF refs = {} THEN 0
    ELSE LET c == CHOOSE c \in refs : TRUE
         IN ClauseWords(st.arena[c]) + SumWords(st, refs \ { c })

DeletedRefs(st) == { c \in DOMAIN st.arena : st.arena[c].deleted }

\* C16: arena_delete sets the DELETED flag of its clause only and adds the
\* words of the clause (header and literals) to wasted; on a deleted clause
\* or INVALID_CLAUSE it changes nothing; so wasted is the sum of the words
\* of the clauses flagged DELETED and is never more than size
C16_DeleteAccounting ==
    /\ [](pc = "arena" =>
            /\ s.arena_wasted = SumWords(s, DeletedRefs(s))
            /\ s.arena_wasted <= s.arena_size)
    /\ [][ret'.op = "arena_delete" =>
            IF ret'.val = INVALID_CLAUSE \/ s.arena[ret'.val].deleted
            THEN s' = s
            ELSE s' = [s EXCEPT
                         !.arena[ret'.val].deleted = TRUE,
                         !.arena_wasted = @ + ClauseWords(s.arena[ret'.val])]]_vars

\* two clauses deleted, one of them of size 0, and one still live
C16_Witness ==
    /\ pc = "arena"
    /\ ret.op = "arena_delete"
    /\ Cardinality(DeletedRefs(s)) = 2
    /\ \E c \in DeletedRefs(s) : s.arena[c].size = 0
    /\ \E c \in DOMAIN s.arena : ~s.arena[c].deleted

\* C17: an arena_alloc whose clause does not fit below MAX_CLAUSES words
\* returns INVALID_CLAUSE and leaves size, capacity, wasted and the stored
\* clauses as they were; every other arena_alloc succeeds
C17_AllocFailure ==
    [][ret'.op = "arena_alloc" =>
          IF s.arena_size + HeaderWords + ret'.val.size > MAX_CLAUSES
          THEN pc' = "arena" /\ ret'.cref = INVALID_CLAUSE /\ s' = s
          ELSE /\ pc' = "arena"
               /\ ret'.cref = s.arena_size
               /\ ret'.cref \in DOMAIN s'.arena]_vars

\* an allocation that was refused while the arena holds clauses
C17_Witness ==
    /\ pc = "arena"
    /\ ret.op = "arena_alloc"
    /\ ret.cref = INVALID_CLAUSE
    /\ s.arena_size > 1
    /\ s.arena_capacity > 536870912

\* the same for the arenas whose capacity the growth factor increases:
\* arena_alloc returns, and it fails exactly when the capacity reached by
\* repeated growth passes MAX_CLAUSES
AllocGrowthBound ==
    [][(ret'.op = "arena_alloc" /\ s.arena_capacity > 1) =>
          /\ pc' = "arena"
          /\ IF ret'.cref = INVALID_CLAUSE
             THEN s' = s /\ s.arena_size + HeaderWords + ret'.val.size > s.arena_capacity
             ELSE ret'.cref = s.arena_size /\ s'.arena_capacity <= MAX_CLAUSES]_vars

\* an allocation is refused although its clause fits below MAX_CLAUSES
RefusedThoughFits ==
    /\ pc = "arena"
    /\ ret.op = "arena_alloc"
    /\ ret.cref = INVALID_CLAUSE
    /\ s.arena_size + HeaderWords + ret.val.size <= MAX_CLAUSES

\* the clause-array entries that reference a live clause, in order
LiveRefs(st) ==
    SelectSeq(Prefix(st.clauses, st.num_clauses), LAMBDA c : ~st.arena[c].deleted)

\* what a compacting arena_gc does to the clause array and the counters:
\* wasted is 0, the entries of live clauses address the same clause as
\* before, in the same order, and the entries of deleted clauses are gone;
\* below the threshold nothing changes
GcClauseArray ==
    [][ret'.op = "arena_gc" =>
          IF GcSkipped(s) THEN s' = s
          ELSE /\ s'.arena_wasted = 0
               /\ s'.num_clauses = Len(LiveRefs(s))
               /\ \A i \in 1 .. Len(LiveRefs(s)) :
                     /\ s'.clauses[i] \in DOMAIN s'.arena
                     /\ s'.arena[s'.clauses[i]] = s.arena[LiveRefs(s)[i]]]_vars

\* C18: a compacting arena_gc leaves wasted = 0, every clause-array entry
\* of a live clause and every watch of a live clause addresses a clause
\* with the same literals, flags and LBD as before, and drops the entries
\* of deleted clauses from the clause array; below the threshold
\* (wasted * 4 < size) the call changes nothing
C18_GcPostcondition ==
    [][ret'.op = "arena_gc" =>
          IF GcSkipped(s) THEN s' = s
          ELSE /\ s'.arena_wasted = 0
               /\ s'.num_clauses = Len(LiveRefs(s))
               /\ \A i \in 1 .. Len(LiveRefs(s)) :
                     /\ s'.clauses[i] \in DOMAIN s'.arena
                     /\ s'.arena[s'.clauses[i]] = s.arena[LiveRefs(s)[i]]
               /\ \A i \in DOMAIN s.gc_watches :
                     \A j \in DOMAIN s.gc_watches[i] :
                        ~s.arena[s.gc_watches[i][j]].deleted =>
                           /\ j \in DOMAIN s'.gc_watches[i]
                           /\ s'.gc_watches[i][j] \in DOMAIN s'.arena
                           /\ s'.arena[s'.gc_watches[i][j]]
                                 = s.arena[s.gc_watches[i][j]]]_vars

\* a compaction has moved a live clause: the clause array has lost an
\* entry and a clause allocated behind a deleted one has a new place
C18_Witness ==
    /\ pc = "arena"
    /\ ret.op = "arena_gc"
    /\ s.arena_wasted = 0
    /\ s.num_clauses >= 1
    /\ s.num_clauses < Len(s.gc_watches[1])
    /\ \E i \in 1 .. Len(given) : given[i].cref # s.gc_watches[1][i]


(***************************************************************************)
(* The watch manager on its own (watch.c, watch.h), driven as              *)
(* tests/test_watch.c drives it: clauses in an arena, watches added for    *)
(* their first two literals, removed per clause, the manager resized.      *)
(* realloc is taken to succeed, as in watch_add above.                     *)
(***************************************************************************)
MaxWatches == 4
MaxWatchVars == 3

\* the clauses test_watch.c keeps in its arena: two binary ones, a long
\* one and a unit
WatchClauses ==
    << <<mkLit(1, FALSE), mkLit(1, TRUE)>>,
       <<mkLit(1, FALSE), mkLit(2, FALSE)>>,
       <<mkLit(1, FALSE), mkLit(2, FALSE), mkLit(3, TRUE)>>,
       <<mkLit(2, TRUE)>> >>

RECURSIVE AllocAll(_, _, _)
AllocAll(st, cs, i) ==
    IF i > Len(cs) THEN st
    ELSE AllocAll(arena_alloc(st, cs[i], Len(cs[i]), FALSE).st, cs, i + 1)

is_binary_watch(w) == w.cref = INVALID_CLAUSE

\* watchlist_remove(wl, i): the last watch takes the place of watch i
watchlist_remove(wl, i) ==
    [j \in 1 .. (Len(wl) - 1) |-> IF j = i THEN wl[Len(wl)] ELSE wl[j]]

\* the loops of watch_remove_clause: of the watches of wl at the places
\* hits (the ones the loop's test accepts) the first is removed, then break
RemoveFirst(wl, hits) ==
    IF hits = {} THEN wl
    ELSE watchlist_remove(wl, CHOOSE i \in hits : \A k \in hits : i <= k)

\* the places of wl a binary clause's loop accepts: the watch carries
\* cref, or it is an implicit binary watch with the blocker other
BinaryHits(wl, cref, other) ==
    { i \in DOMAIN wl : \/ wl[i].cref = cref
                         \/ (is_binary_watch(wl[i]) /\ wl[i].blocker = other) }

\* the places of wl a longer clause's loop accepts
CrefHits(wl, cref) == { i \in DOMAIN wl : wl[i].cref = cref }

watch_remove_clause(st, cref) ==
    IF cref = INVALID_CLAUSE THEN st
    ELSE LET size == st.arena[cref].size
             lits == st.arena[cref].lits
         IN IF size = 2
            THEN LET s1 == [st EXCEPT !.watches[At(lits, 0)] =
                               RemoveFirst(@, BinaryHits(@, cref, At(lits, 1)))]
                 IN [s1 EXCEPT !.watches[At(lits, 1)] =
                        RemoveFirst(@, BinaryHits(@, cref, At(lits, 0)))]
            ELSE IF size > 2
            THEN LET s1 == [st EXCEPT !.watches[At(lits, 0)] =
                               RemoveFirst(@, CrefHits(@, cref))]
                 IN [s1 EXCEPT !.watches[At(lits, 1)] =
                        RemoveFirst(@, CrefHits(@, cref))]
            ELSE st

\* the variant that initialises every list of the new array
watch_resize_fresh(st, new_num_vars) ==
    IF new_num_vars <= st.num_vars THEN [st |-> st, returns |-> TRUE]
    ELSE [st |-> [st EXCEPT !.watches = watch_init(new_num_vars),
                            !.num_vars = new_num_vars],
          returns |-> TRUE]

watch_resize(st, new_num_vars) ==
    IF new_num_vars <= st.num_vars THEN [st |-> st, returns |-> TRUE]
    ELSE [st |-> [st EXCEPT !.watches =
                      [l \in 0 .. (2 * new_num_vars + 1) |->
                          IF l < 2 * (st.num_vars + 1) THEN st.watches[l] ELSE <<>>],
                            !.num_vars = new_num_vars],
          returns |-> TRUE]

InitWatch ==
    /\ \E n \in 1 .. 2 :
          s = AllocAll(arena_init(1024), WatchClauses, 1)
                 @@ [watches |-> watch_init(n), watch_alloc |-> {},
                     num_vars |-> n, updates |-> 0]
    /\ pc = "watch"
    /\ conflict = INVALID_CLAUSE
    /\ assumps = <<>>
    /\ ret = NoRet
    /\ given = <<>>
    /\ call = NoCall

\* the clauses whose first two literals have a list
Watchable(st) ==
    { c \in DOMAIN st.arena :
         /\ st.arena[c].size >= 2
         /\ At(st.arena[c].lits, 0) \in DOMAIN st.watches
         /\ At(st.arena[c].lits, 1) \in DOMAIN st.watches }

\* watch_add as its callers use it: a clause is watched on one of its
\* first two literals with the other one as blocker, under its reference
\* or, when binary, as an implicit watch (solver.c 499-500, 541-542)
WatchAdd ==
    /\ pc = "watch"
    /\ s.updates < MaxWatches
    /\ \E c \in Watchable(s), i \in 0 .. 1, implicit \in BOOLEAN :
          /\ implicit => s.arena[c].size = 2
          /\ LET lit == At(s.arena[c].lits, i)
                 blocker == At(s.arena[c].lits, 1 - i)
                 cref == IF implicit THEN INVALID_CLAUSE ELSE c
             IN /\ s' = [watch_add(s, lit, cref, blocker) EXCEPT !.updates = @ + 1]
                /\ ret' = [op |-> "watch_add",
                           val |-> [lit |-> lit, cref |-> cref, blocker |-> blocker]]
    /\ UNCHANGED <<pc, conflict, assumps, given, call>>

\* the number of watches of wl that carry cref
WatchCount(wl, cref) == Cardinality({ i \in DOMAIN wl : wl[i].cref = cref })

\* cref is watched once on each of its first two literals
WatchedOnce(st, cref) ==
    /\ cref \in Watchable(st)
    /\ WatchCount(st.watches[At(st.arena[cref].lits, 0)], cref) = 1
    /\ WatchCount(st.watches[At(st.arena[cref].lits, 1)], cref) = 1

WatchRemoveClause ==
    /\ pc = "watch"
    /\ \E cref \in Watchable(s) \cup { c \in DOMAIN s.arena : s.arena[c].size < 2 }
                      \cup { INVALID_CLAUSE } :
          /\ s' = watch_remove_clause(s, cref)
          /\ ret' = [op |-> "watch_remove_clause", val |-> cref,
                     once |-> WatchedOnce(s, cref)]
    /\ UNCHANGED <<pc, conflict, assumps, given, call>>

WatchResize ==
    /\ pc = "watch"
    /\ \E n \in 0 .. MaxWatchVars :
          /\ s' = watch_resize(s, n).st
          /\ ret' = [op |-> "watch_resize", val |-> n,
                     returns |-> watch_resize(s, n).returns,
                     grew |-> n > s.num_vars]
    /\ UNCHANGED <<pc, conflict, assumps, given, call>>

NextWatch == WatchAdd \/ WatchRemoveClause \/ WatchResize

SpecWatch == InitWatch /\ [][NextWatch]_vars

\* the number of places of wl that hold the watch w
CountIn(wl, w) == Cardinality({ i \in DOMAIN wl : wl[i] = w })

\* all watches of the two lists
WatchesIn(st, l0, l1) ==
    { st.watches[l0][i] : i \in DOMAIN st.watches[l0] }
       \cup { st.watches[l1][i] : i \in DOMAIN st.watches[l1] }

\* watch_add(L, cref, blocker) appends the watch (cref, blocker) to the
\* list of L and changes no other list
WatchAddFrame ==
    [][ret'.op = "watch_add" =>
          /\ DOMAIN s'.watches = DOMAIN s.watches
          /\ \A l \in DOMAIN s.watches :
                s'.watches[l] =
                   IF l = ret'.val.lit
                   THEN Append(s.watches[l], [cref |-> ret'.val.cref,
                                              blocker |-> ret'.val.blocker])
                   ELSE s.watches[l]]_vars

\* watch_remove_clause(cref) on a clause watched once on each of its first
\* two literals: no watch of cref is left in the two lists, every other
\* watch of them is kept, every other list is as before
RemoveFrame(st, st2, cref) ==
    LET l0 == At(st.arena[cref].lits, 0)
        l1 == At(st.arena[cref].lits, 1)
    IN /\ DOMAIN st2.watches = DOMAIN st.watches
       /\ WatchCount(st2.watches[l0], cref) = 0
       /\ WatchCount(st2.watches[l1], cref) = 0
       /\ \A w \in WatchesIn(st, l0, l1) :
             w.cref # cref =>
                /\ CountIn(st2.watches[l0], w) = CountIn(st.watches[l0], w)
                /\ CountIn(st2.watches[l1], w) = CountIn(st.watches[l1], w)
       /\ Len(st2.watches[l0]) = Len(st.watches[l0]) - 1
       /\ Len(st2.watches[l1]) = Len(st.watches[l1]) - 1
       /\ \A l \in DOMAIN st.watches \ {l0, l1} : st2.watches[l] = st.watches[l]

\* the same for the clauses of more than two literals
WatchRemoveLong ==
    [][(/\ ret'.op = "watch_remove_clause"
        /\ WatchedOnce(s, ret'.val)
        /\ s.arena[ret'.val].size > 2) => RemoveFrame(s, s', ret'.val)]_vars

\* C19: watch_add(L, cref, blocker) appends exactly one watch
\* (cref, blocker) to the list of L and changes no other list;
\* watch_remove_clause(cref) on a clause watched once on each of its first
\* two literals leaves no watch with that cref in those two lists, keeps
\* every other watch in them, and changes no other list
C19_WatchFrame ==
    /\ [][ret'.op = "watch_add" =>
            /\ DOMAIN s'.watches = DOMAIN s.watches
            /\ s'.watches[ret'.val.lit] =
                  Append(s.watches[ret'.val.lit],
                         [cref |-> ret'.val.cref, blocker |-> ret'.val.blocker])
            /\ \A l \in DOMAIN s.watches \ {ret'.val.lit} :
                  s'.watches[l] = s.watches[l]]_vars
    /\ [][(ret'.op = "watch_remove_clause" /\ WatchedOnce(s, ret'.val))
             => RemoveFrame(s, s', ret'.val)]_vars

\* a clause watched once on each of its first two literals, next to other
\* watches, has been removed
C19_Witness ==
    /\ pc = "watch"
    /\ ret.op = "watch_remove_clause"
    /\ ret.once
    /\ \E l \in DOMAIN s.watches : s.watches[l] # <<>>


\* C20: watch_resize(wm, n) returns true; for n > num_vars it sets
\* num_vars = n, keeps the contents of every existing watch list and makes
\* the lists of all new literals empty; for n <= num_vars it changes
\* nothing
C20_WatchResize ==
    [][ret'.op = "watch_resize" =>
          /\ ret'.returns
          /\ IF ret'.val > s.num_vars
             THEN /\ s'.num_vars = ret'.val
                  /\ DOMAIN s'.watches = 0 .. (2 * ret'.val + 1)
                  /\ \A l \in DOMAIN s'.watches :
                        s'.watches[l] = IF l \in DOMAIN s.watches
                                        THEN s.watches[l] ELSE <<>>
                  /\ s' = [s EXCEPT !.num_vars = s'.num_vars,
                                    !.watches = s'.watches]
             ELSE s' = s]_vars

\* a manager that holds watches has grown
C20_Witness ==
    /\ pc = "watch"
    /\ ret.op = "watch_resize"
    /\ ret.grew
    /\ ret.val = MaxWatchVars
    /\ \E l \in DOMAIN s.watches : Len(s.watches[l]) >= 2
    /\ s.watches[2 * MaxWatchVars + 1] = <<>>

(***************************************************************************)
(* solver_solve as a function of the solver it is called on: the entry of  *)
(* solver_solve_with_assumptions and its main loop, run to the return      *)
(* (solver.c 1743-2035), for comparing calls on the same formula           *)
(***************************************************************************)
\* the loop is followed for MaxConflicts conflicts, as HandleConflict is
Unfinished == [op |-> "unfinished", val |-> 0]

RECURSIVE SolveLoop(_, _)

\* after an iteration with outcome o
SolveNext(o, n_assumps) ==
    IF o.pc = "propagate" THEN SolveLoop(o.st, n_assumps)
    ELSE IF o.pc = "trap" THEN Unfinished
    ELSE o.ret

\* the iteration, given the result r of its solver_propagate
SolveIteration(r, n_assumps) ==
    IF r.conflict # INVALID_CLAUSE
    THEN IF r.st.stats.conflicts >= MaxConflicts THEN Unfinished
         ELSE SolveNext(ConflictBranch([r.st EXCEPT !.stats.conflicts = @ + 1,
                                                   !.restart.conflicts_since = @ + 1],
                                       r.conflict, n_assumps, NoRet),
                        n_assumps)
    ELSE SolveNext(DecideBranch(solver_decide(r.st), NoRet), n_assumps)

SolveLoop(st, n_assumps) == SolveIteration(solver_propagate(st), n_assumps)

\* the entry, given the result a of the assumption loop
SolveAssumed(a, r, n_assumps) ==
    IF a.failed THEN SolveRet(LFALSE)
    ELSE IF r.conflict # INVALID_CLAUSE THEN SolveRet(LFALSE)
    ELSE SolveLoop(r.st, n_assumps)

\* the entry after "Check if already solved", given the result b of
\* solver_eliminate_blocked_clauses
SolveEntry(st, b, as) ==
    SolveAssumed(AddAssumptions(IF st.opts.bce
                                THEN [b.st EXCEPT !.stats.blocked_clauses = b.eliminated,
                                                  !.stats.blocked_indet = b.indet]
                                ELSE st, as, 1),
                 solver_propagate(
                     AddAssumptions(IF st.opts.bce
                                    THEN [b.st EXCEPT !.stats.blocked_clauses = b.eliminated,
                                                      !.stats.blocked_indet = b.indet]
                                    ELSE st, as, 1).st),
                 Len(as))

\* the return value of solver_solve_with_assumptions(st, as)
SolveValue(st, as) ==
    IF AlreadySolved(st) THEN SolveRet(st.result)
    ELSE SolveEntry(st, solver_eliminate_blocked_clauses(st), as)

\* the option records with blocked clause elimination on and off
BceOpts == { [o EXCEPT !.bce = b] : o \in ModelOpts, b \in BOOLEAN }

\* the formulas of the comparison: units, binary and long clauses over
\* three variables, among them unsatisfiable sets that need a long clause
MaxBceClauses == 4

BcePool ==
    { <<mkLit(3, TRUE)>>, <<mkLit(2, TRUE)>>,
      <<mkLit(1, TRUE), mkLit(2, FALSE)>>,
      <<mkLit(1, FALSE), mkLit(2, TRUE)>>,
      <<mkLit(1, FALSE), mkLit(2, FALSE), mkLit(3, FALSE)>>,
      <<mkLit(1, TRUE), mkLit(2, TRUE), mkLit(3, FALSE)>> }

InitBce ==
    /\ s \in { NewVars(solver_new_with_opts(o), MaxVars) : o \in BceOpts }
    /\ pc = "build"
    /\ conflict = INVALID_CLAUSE
    /\ assumps = <<>>
    /\ ret = NoRet
    /\ given = <<>>
    /\ call = NoCall

AddBceClause ==
    /\ pc = "build"
    /\ Len(given) < MaxBceClauses
    /\ \E lits \in BcePool :
          /\ s' = solver_add_clause(s, lits).st
          /\ ret' = [op |-> "add_clause", val |-> solver_add_clause(s, lits).ok]
          /\ given' = Append(given, [lits |-> lits,
                                     ok |-> solver_add_clause(s, lits).ok])
    /\ UNCHANGED <<pc, conflict, assumps, call>>

NextBce == AddBceClause \/ SolveBegin \/ Propagate \/ HandleConflict \/ Decide

SpecBce == InitBce /\ [][NextBce]_vars

\* C21: on every formula solver_solve returns the same verdict with
\* opts.bce = true as with opts.bce = false
C21_BceSameVerdict ==
    (pc = "build" /\ s.result = UNDEF) =>
        SolveValue([s EXCEPT !.opts.bce = TRUE], <<>>)
           = SolveValue([s EXCEPT !.opts.bce = FALSE], <<>>)

\* solve has returned SAT after its scan eliminated a blocked clause
C21_Witness ==
    /\ ReturnedSat
    /\ ~call.repeat
    /\ assumps = <<>>
    /\ s.opts.bce
    /\ s.stats.blocked_clauses >= 1

\* the function is the one the solver's steps compute: what solve returns
\* is its value on the solver as it is after the step
SolveValueAgrees ==
    [][(pc' = "returned" /\ ret'.op = "solve" /\ pc \in {"build", "returned"})
          => ret' = SolveValue(s, assumps')]_vars

\* the solver at the initial propagation of a call with assumptions as:
\* after the scan for blocked clauses and the assumption loop
BeforeInitialPropagation(st, as) ==
    AddAssumptions(IF st.opts.bce
                   THEN [solver_eliminate_blocked_clauses(st).st
                         EXCEPT !.stats.blocked_clauses =
                                    solver_eliminate_blocked_clauses(st).eliminated,
                                !.stats.blocked_indet =
                                    solver_eliminate_blocked_clauses(st).indet]
                   ELSE st, as, 1)

\* the step is the entry of a call whose initial propagation reports a
\* conflict
InitialConflict ==
    /\ pc \in {"build", "returned"}
    /\ pc' # "build"
    /\ ~AlreadySolved(s)
    /\ ~BeforeInitialPropagation(s, assumps').failed
    /\ solver_propagate(BeforeInitialPropagation(s, assumps').st).conflict
          # INVALID_CLAUSE

\* the level at which the initial propagation of the step runs
InitialLevel == BeforeInitialPropagation(s, assumps').st.decision_level

\* the step returns UNSAT, records it and decides nothing
ReturnsUnsat ==
    /\ pc' = "returned"
    /\ ret' = SolveRet(LFALSE)
    /\ s'.result = LFALSE
    /\ s'.stats.decisions = s.stats.decisions

\* a conflict of the main loop at level 0 returns UNSAT, one at a higher
\* level does not
LoopConflictLevel ==
    [][pc = "conflict" =>
          IF s.decision_level = 0 THEN ReturnsUnsat
          ELSE ret' # SolveRet(LFALSE) /\ s'.result # LFALSE]_vars

\* C22: a conflict that solver_propagate reports while decision_level = 0,
\* in the initial propagation or in the main loop, makes solve return
\* UNSAT with result = UNSAT and without a further decision; a conflict at
\* a level > 0 never yields UNSAT directly
C22_LevelZeroConflict ==
    /\ [][pc = "conflict" =>
            IF s.decision_level = 0 THEN ReturnsUnsat
            ELSE ~(pc' = "returned" /\ ret' = SolveRet(LFALSE))]_vars
    /\ [][InitialConflict =>
            IF InitialLevel = 0 THEN ReturnsUnsat
            ELSE ~(pc' = "returned" /\ ret' = SolveRet(LFALSE))]_vars

\* solve has returned UNSAT from a conflict at level 0 of its main loop,
\* after at least one decision of the call
C22_Witness ==
    /\ ReturnedUnsat
    /\ conflict # INVALID_CLAUSE
    /\ s.decision_level = 0
    /\ s.stats.conflicts > call.conflicts0
    /\ s.stats.decisions > call.decisions0

\* the literals of the live clauses of the database: the clauses of the
\* arena that are not deleted (original and learnt) and the binary clauses
\* that solver_add_clause accepted, which live in the watch lists only
LiveClauses ==
    { s.arena[c].lits : c \in { d \in DOMAIN s.arena : ~s.arena[d].deleted } }
       \cup { given[i].lits : i \in { k \in Accepted : Len(given[k].lits) = 2 } }

AllFalse(lits) == \A i \in 1 .. Len(lits) : LitFalse(s, lits[i])

\* all literals false except one, which is unassigned
UnitPending(lits) ==
    \E i \in 1 .. Len(lits) :
        /\ s.vars[var(lits[i])].value = UNDEF
        /\ \A k \in (1 .. Len(lits)) \ {i} : LitFalse(s, lits[k])

\* solver_propagate has just returned INVALID_CLAUSE: in the main loop, or
\* as the initial propagation of the call
PropagatedClean ==
    \/ pc = "decide"
    \/ /\ pc = "propagate"
       /\ s.stats.conflicts = call.conflicts0
       /\ s.stats.decisions = call.decisions0

\* C23: when solver_propagate returns INVALID_CLAUSE, qhead = trail_size
\* and no live clause of the database has all its literals false, or all
\* false except one that is unassigned
C23_Saturation ==
    PropagatedClean =>
        /\ s.qhead = Len(s.trail)
        /\ \A lits \in LiveClauses : ~AllFalse(lits) /\ ~UnitPending(lits)

\* a propagation that assigned literals from long and binary clauses has
\* returned without a conflict
C23_Witness ==
    /\ pc = "decide"
    /\ \E v \in 1 .. s.num_vars :
          s.vars[v].value # UNDEF /\ s.vars[v].reason \in DOMAIN s.arena
    /\ \E i \in Accepted : Len(given[i].lits) = 2
    /\ s.stats.conflicts > call.conflicts0

\* the part that holds: qhead = trail_size on every such return
QheadAtEnd == PropagatedClean => s.qhead = Len(s.trail)

\* in every state that solver_propagate leaves without a conflict and in
\* which the clauses have their watches, the assignment is closed under
\* unit propagation
SaturationWithWatches ==
    (PropagatedClean /\ C10_WatchInvariant) =>
        \A lits \in LiveClauses : ~AllFalse(lits) /\ ~UnitPending(lits)

(***************************************************************************)
(* solver_propagate one trail literal at a time (solver.c 607-791): the    *)
(* outer loop of the function as steps of the search                       *)
(***************************************************************************)
\* the pass over the watch list of neg(p), qhead already advanced
PropagateFrom(st, p) == PropagateWatches(st, p, st.watches[neg(p)], 1, <<>>)

\* the variant that reads the trail literal and leaves qhead where it is
PropagateLiteralAgain(st) ==
    PropagateFrom([st EXCEPT !.stats.propagations = @ + 1],
                  At(st.trail, st.qhead).lit)

\* one iteration of while (s->qhead < s->trail_size)
PropagateLiteral(st) ==
    PropagateFrom([st EXCEPT !.qhead = @ + 1, !.stats.propagations = @ + 1],
                  At(st.trail, st.qhead).lit)

\* the next thing solver_propagate does in the main loop: an iteration,
\* or the return of INVALID_CLAUSE when the loop test fails
PropagateStep ==
    /\ pc = "propagate"
    /\ IF s.qhead < Len(s.trail)
       THEN \E r \in {PropagateLiteral(s)} :
            /\ s' = r.st
            /\ conflict' = r.conflict
            /\ pc' = IF r.conflict # INVALID_CLAUSE
                     THEN "conflict" ELSE "propagate"
       ELSE /\ s' = s
            /\ conflict' = INVALID_CLAUSE
            /\ pc' = "decide"
    /\ UNCHANGED <<assumps, ret, given, call>>

\* the entry of solve up to its first call of solver_propagate, on a solver
\* that holds no verdict yet
EnterPropagate ==
    /\ pc = "build"
    /\ ~AlreadySolved(s)
    /\ \E as \in AssumpSeqs :
          /\ \A i \in 1 .. Len(as) : var(as[i]) <= s.num_vars
          /\ ~BeforeInitialPropagation(s, as).failed
          /\ assumps' = as
          /\ s' = BeforeInitialPropagation(s, as).st
    /\ pc' = "propagate"
    /\ conflict' = INVALID_CLAUSE
    /\ call' = [repeat |-> FALSE,
                conflicts0 |-> s.stats.conflicts,
                decisions0 |-> s.stats.decisions]
    /\ UNCHANGED <<ret, given>>

NextSteps == NewVar \/ AddClause \/ EnterPropagate \/ PropagateStep

\* the call, once entered, is run on: solver_propagate is not interrupted
SpecSteps == Init /\ [][NextSteps]_vars /\ WF_vars(PropagateStep)

\* the variables of the trail entries from position n on (0-based)
TrailVarsFrom(st, n) == { var(st.trail[i].lit) : i \in (n + 1) .. Len(st.trail) }

\* the iterations compose to the function: an iteration without conflict
\* leaves a solver on which solver_propagate gives what it gave before, an
\* iteration with a conflict gives the function's result
StepsCompose ==
    [][(pc = "propagate" /\ s.qhead < Len(s.trail)) =>
          IF pc' = "conflict"
          THEN solver_propagate(s) = [st |-> s', conflict |-> conflict']
          ELSE solver_propagate(s') = solver_propagate(s)]_vars

\* C24: every call of solver_propagate ends, with a conflict reference or
\* with qhead = trail_size: each iteration that goes on consumes one trail
\* literal (qhead grows by one) and appends only variables that had no
\* value, each once
C24_PropagateTerminates ==
    /\ (pc = "propagate") ~> (pc \in {"conflict", "decide"})
    /\ [](pc = "decide" => s.qhead = Len(s.trail))
    /\ [](pc = "conflict" => conflict # INVALID_CLAUSE)
    /\ [][(pc = "propagate" /\ pc' \in {"propagate", "conflict"}) =>
            /\ s'.qhead = s.qhead + 1
            /\ Prefix(s'.trail, Len(s.trail)) = s.trail
            /\ \A v \in TrailVarsFrom(s', Len(s.trail)) : s.vars[v].value = UNDEF
            /\ Cardinality(TrailVarsFrom(s', Len(s.trail)))
                  = Len(s'.trail) - Len(s.trail)]_vars

\* solver_propagate is in the middle of a call: it has consumed literals,
\* has assigned one from a long clause and has more to consume
C24_Witness ==
    /\ pc = "propagate"
    /\ s.qhead >= 2
    /\ s.qhead < Len(s.trail)
    /\ \E v \in 1 .. s.num_vars :
          /\ s.vars[v].reason \in DOMAIN s.arena
          /\ s.vars[v].trail_pos >= s.qhead


(***************************************************************************)
(* Propagation over clauses deleted by on-the-fly subsumption              *)
(* (solver.c 602-795, 1182-1217)                                           *)
(***************************************************************************)
MaxSubsumeVars == 5

\* a formula whose solve learns a clause, then a clause that subsumes it,
\* and two clauses that repeat a literal (solver_add_clause takes them as
\* binary clauses):
\* (-1 2 3) (-1 2 -3) (-1 -2 4) (-2 3 -4) (-2 -3 -4) (1 -3) (1 1) (-1 -1)
SubsumeFormula ==
    << <<mkLit(1, TRUE), mkLit(2, FALSE), mkLit(3, FALSE)>>,
       <<mkLit(1, TRUE), mkLit(2, FALSE), mkLit(3, TRUE)>>,
       <<mkLit(1, TRUE), mkLit(2, TRUE), mkLit(4, FALSE)>>,
       <<mkLit(2, TRUE), mkLit(3, FALSE), mkLit(4, TRUE)>>,
       <<mkLit(2, TRUE), mkLit(3, TRUE), mkLit(4, TRUE)>>,
       <<mkLit(1, FALSE), mkLit(3, TRUE)>>,
       <<mkLit(1, FALSE), mkLit(1, FALSE)>>,
       <<mkLit(1, TRUE), mkLit(1, TRUE)>> >>

InitSubsume ==
    /\ s \in { NewVars(solver_new_with_opts(o), MaxSubsumeVars) : o \in ModelOpts }
    /\ pc = "build"
    /\ conflict = INVALID_CLAUSE
    /\ assumps = <<>>
    /\ ret = NoRet
    /\ given = <<>>
    /\ call = NoCall

\* the clauses are handed over in the order of the formula, any of them
\* left out
AddSubsumeClause ==
    /\ pc = "build"
    /\ \E i \in 1 .. Len(SubsumeFormula) :
          /\ \A g \in 1 .. Len(given) :
                \E k \in 1 .. i - 1 : SubsumeFormula[k] = given[g].lits
          /\ s' = solver_add_clause(s, SubsumeFormula[i]).st
          /\ ret' = [op |-> "add_clause",
                     val |-> solver_add_clause(s, SubsumeFormula[i]).ok]
          /\ given' = Append(given, [lits |-> SubsumeFormula[i],
                                     ok |-> solver_add_clause(s, SubsumeFormula[i]).ok])
    /\ UNCHANGED <<pc, conflict, assumps, call>>

NextSubsume ==
    AddSubsumeClause \/ SolveBegin \/ Propagate \/ HandleConflict \/ Decide

SpecSubsume == InitSubsume /\ [][NextSubsume]_vars

\* C25: a clause marked deleted while its watches remain is skipped by
\* solver_propagate: no call assigns a literal with a deleted clause as
\* its reason, and no call returns a deleted clause as the conflict
C25_DeletedInert ==
    [][(pc = "propagate" /\ pc' \in {"conflict", "decide"}) =>
          /\ conflict' \notin DeletedRefs(s)
          /\ \A v \in 1 .. s.num_vars :
                (s.vars[v].value = UNDEF /\ s'.vars[v].value # UNDEF)
                    => s'.vars[v].reason \notin DeletedRefs(s)]_vars

\* the variables on the trail whose reason is a deleted clause
DeletedReasons(st) ==
    { v \in 1 .. st.num_vars :
        st.vars[v].value # UNDEF /\ st.vars[v].reason \in DeletedRefs(st) }

\* no call of solver_propagate starts with such a variable: where one is
\* found after the call, the call has made the assignment
DeletedReasonIsNew == pc = "propagate" => DeletedReasons(s) = {}

\* solver_propagate has returned and the trail holds a literal whose reason
\* is a deleted learnt clause that is still in the watch lists
C25_Witness ==
    /\ pc \in {"conflict", "decide"}
    /\ \E v \in DeletedReasons(s) :
          /\ s.arena[s.vars[v].reason].learned
          /\ \E l \in DOMAIN s.watches :
                \E k \in 1 .. Len(s.watches[l]) :
                   s.watches[l][k].cref = s.vars[v].reason


(***************************************************************************)
(* The clause returned by solver_analyze (solver.c 826-926)                *)
(***************************************************************************)
\* the analysis the main loop is about to make of the conflict it holds
Analysis == solver_analyze(s, conflict)

\* lits[1] is the negation of a literal on the trail of st whose variable
\* was assigned at level d
AssertsAtLevel(st, lits, d) ==
    /\ \E i \in 0 .. Len(st.trail) - 1 : At(st.trail, i).lit = neg(lits[1])
    /\ st.vars[var(lits[1])].level = d

\* lits[2 ..] belong to variables assigned at the levels 1 .. d-1
LowerLevels(st, lits, d) ==
    \A k \in 2 .. Len(lits) :
        /\ st.vars[var(lits[k])].value # UNDEF
        /\ st.vars[var(lits[k])].level \in 1 .. d - 1

NoDuplicates(lits) ==
    \A j, k \in 1 .. Len(lits) : j # k => lits[j] # lits[k]

\* C26: for a conflict at decision level d > 0 solver_analyze returns a
\* clause whose first literal negates a trail literal of level d, whose
\* other literals are of the levels 1 .. d-1 without duplicates, and whose
\* literals are all false at the time of the conflict
C26_FirstUipShape ==
    (pc = "conflict" /\ s.decision_level > 0) =>
        /\ ~Analysis.trap
        /\ AssertsAtLevel(s, Analysis.learnt, s.decision_level)
        /\ LowerLevels(s, Analysis.learnt, s.decision_level)
        /\ NoDuplicates(Analysis.learnt)
        /\ \A k \in 1 .. Len(Analysis.learnt) : LitFalse(s, Analysis.learnt[k])


\* the rest of the shape, without the level of the first literal
ShapeBehindFirst ==
    (pc = "conflict" /\ s.decision_level > 0) =>
        /\ ~Analysis.trap
        /\ \E i \in 0 .. Len(s.trail) - 1 :
              At(s.trail, i).lit = neg(Analysis.learnt[1])
        /\ LowerLevels(s, Analysis.learnt, s.decision_level)
        /\ NoDuplicates(Analysis.learnt)
        /\ \A k \in 1 .. Len(Analysis.learnt) : LitFalse(s, Analysis.learnt[k])

\* a binary conflict at a level above 0 whose analysis returns the negation
\* of the last trail literal, a learnt unit that was recorded with level 0
C26_Witness ==
    /\ pc = "conflict"
    /\ s.decision_level > 0
    /\ conflict = BINARY_CONFLICT
    /\ ~Analysis.trap
    /\ Analysis.learnt = <<neg(At(s.trail, Len(s.trail) - 1).lit)>>
    /\ s.vars[var(Analysis.learnt[1])].level = 0
    /\ s.vars[var(Analysis.learnt[1])].reason = INVALID_CLAUSE


(***************************************************************************)
(* The learnt clause as inserted and the backtrack level                   *)
(* (solver.c 1872-1889, 1940-1967)                                         *)
(***************************************************************************)
\* the minimization the main loop is about to make of the analysed clause
Minimized == solver_minimize_clause(Analysis.st, Analysis.learnt)

\* the clause that is inserted
Inserted == Minimized.learnt

\* the level solver_backtrack_chronological returns for it
UsedLevel ==
    solver_backtrack_chronological(Minimized.st, Inserted, Analysis.bt_level).level

\* the highest level among lits[2 ..] in st, 0 for a unit clause
HighestRemaining(st, lits) ==
    IF Len(lits) = 1 THEN 0
    ELSE CHOOSE m \in { st.vars[var(lits[k])].level : k \in 2 .. Len(lits) } :
            \A k \in 2 .. Len(lits) : st.vars[var(lits[k])].level <= m

AnalysedConflict == pc = "conflict" /\ s.decision_level > 0 /\ ~Analysis.trap

\* the asserting literal is at index 0 of the inserted clause
AssertingFirst == AnalysedConflict => Inserted[1] = Analysis.learnt[1]

\* index 1 holds a literal of the highest remaining level
SecondIsHighest ==
    (AnalysedConflict /\ Len(Inserted) >= 2) =>
        s.vars[var(Inserted[2])].level = HighestRemaining(s, Inserted)

\* the level backtracked to is the highest remaining level
UsedIsHighest == AnalysedConflict => UsedLevel = HighestRemaining(s, Inserted)

\* C27: the learnt clause that is inserted has the asserting literal at
\* index 0 and a literal of the highest level among the others at index 1,
\* and the backtrack level used is that level (0 for a unit clause)
C27_LearntLayout == AssertingFirst /\ SecondIsHighest /\ UsedIsHighest


\* the conflict branch stores the clause Inserted and places its watches
\* on the literals at index 0 and index 1
InsertedIsStored ==
    [][(AnalysedConflict /\ pc' # "conflict" /\ Len(Inserted) >= 2) =>
          \E c \in NewLearnts :
             /\ s'.arena[c].lits = Inserted
             /\ \E k \in 1 .. Len(s'.watches[Inserted[1]]) :
                   s'.watches[Inserted[1]][k].cref = c
             /\ \E k \in 1 .. Len(s'.watches[Inserted[2]]) :
                   s'.watches[Inserted[2]][k].cref = c]_vars

\* a conflict whose inserted clause has three literals, the one at index 1
\* of a lower level than the one at index 2
C27_Witness ==
    /\ AnalysedConflict
    /\ conflict # BINARY_CONFLICT
    /\ Len(Inserted) >= 3
    /\ s.vars[var(Inserted[2])].level < s.vars[var(Inserted[3])].level
    /\ s.vars[var(Inserted[2])].level >= 1


(***************************************************************************)
(* Minimization of the learnt clause (solver.c 1236-1351)                  *)
(***************************************************************************)
\* a is b with some of its entries left out, the others in b's order
IsSubSeq(a, b) ==
    \E f \in [1 .. Len(a) -> 1 .. Len(b)] :
        /\ \A i \in 1 .. Len(a) : b[f[i]] = a[i]
        /\ \A i, j \in 1 .. Len(a) : i < j => f[i] < f[j]

\* the literals of the analysed clause that the minimization removes
Removed ==
    { Analysis.learnt[k] : k \in 1 .. Len(Analysis.learnt) }
        \ { Inserted[k] : k \in 1 .. Len(Inserted) }

\* C28: solver_minimize_clause keeps the asserting literal at index 0 and
\* returns a sub-sequence of its input, it removes a literal only if the
\* variable has a reason clause, and seen is all 0 on return of
\* solver_analyze and on return of solver_minimize_clause
C28_MinimizeShrinks ==
    AnalysedConflict =>
        /\ Inserted[1] = Analysis.learnt[1]
        /\ IsSubSeq(Inserted, Analysis.learnt)
        /\ \A l \in Removed : s.vars[var(l)].reason \in DOMAIN s.arena
        /\ \A v \in DOMAIN s.seen :
              Analysis.st.seen[v] = 0 /\ Minimized.st.seen[v] = 0

\* a conflict whose analysed clause loses a literal in the minimization
C28_Witness ==
    /\ AnalysedConflict
    /\ Len(Analysis.learnt) >= 3
    /\ Removed # {}
    /\ Len(Inserted) < Len(Analysis.learnt)


(***************************************************************************)
(* The decision (solver.c 932-979)                                         *)
(***************************************************************************)
\* a step of the no-conflict branch in which solver_decide has assigned a
\* variable
Decided == pc = "decide" /\ Len(s'.trail) = Len(s.trail) + 1

\* C29: with phase saving solver_decide gives the chosen variable its saved
\* polarity (FALSE if it was last assigned FALSE, TRUE if it was last
\* assigned TRUE); without phase saving and random phase it assigns FALSE
C29_DecisionPolarity ==
    [][Decided =>
          \E v \in 1 .. s.num_vars :
             /\ v = var(s'.trail[Len(s'.trail)].lit)
             /\ s.opts.phase_saving =>
                   s'.vars[v].value = IF s.vars[v].polarity THEN LTRUE ELSE LFALSE
             /\ (~s.opts.phase_saving /\ ~s.opts.random_phase) =>
                   s'.vars[v].value = LFALSE]_vars

\* the last trail entry is a decision
LastIsDecision(st) ==
    /\ st.decision_level >= 1
    /\ Len(st.trail) >= 1
    /\ st.trail_lims[st.decision_level] = Len(st.trail) - 1
    /\ st.vars[var(st.trail[Len(st.trail)].lit)].reason = INVALID_CLAUSE
    /\ st.vars[var(st.trail[Len(st.trail)].lit)].level = st.decision_level

\* with phase saving on, a variable that a unit clause had assigned FALSE
\* (its saved polarity) has just been decided TRUE
C29_Witness ==
    /\ pc = "propagate"
    /\ s.opts.phase_saving
    /\ s.stats.decisions >= 1
    /\ Len(assumps) < s.decision_level
    /\ LastIsDecision(s)
    /\ \E v \in 1 .. s.num_vars :
          /\ s.trail[Len(s.trail)].lit = mkLit(v, FALSE)
          /\ s.vars[v].value = LTRUE
          /\ ~s.vars[v].polarity
          /\ \E i \in 1 .. Len(given) :
                given[i].ok /\ given[i].lits = <<mkLit(v, TRUE)>>


\* the variables in the order heap of st
InOrderHeap(st) == { st.heap[i] : i \in 1 .. Len(st.heap) }

DecidedVar == var(s'.trail[Len(s'.trail)].lit)

\* C30: when solver_decide has decided, the variable was unassigned and of
\* maximal activity among the unassigned variables, decision_level is one
\* higher, trail_lims[decision_level] is the trail size before the push,
\* the literal is on the trail at the new level with reason INVALID_CLAUSE,
\* and what left the heap is the decided variable and assigned variables
C30_DecisionSelection ==
    [][Decided =>
          /\ s.vars[DecidedVar].value = UNDEF
          /\ \A u \in 1 .. s.num_vars :
                s.vars[u].value = UNDEF =>
                    s.vars[u].activity <= s.vars[DecidedVar].activity
          /\ s'.decision_level = s.decision_level + 1
          /\ s'.trail_lims[s'.decision_level] = Len(s.trail)
          /\ s'.trail[Len(s'.trail)].level = s'.decision_level
          /\ s'.vars[DecidedVar].level = s'.decision_level
          /\ s'.vars[DecidedVar].reason = INVALID_CLAUSE
          /\ s'.vars[DecidedVar].trail_pos = Len(s.trail)
          /\ InOrderHeap(s') \subseteq InOrderHeap(s) \ {DecidedVar}
          /\ \A u \in InOrderHeap(s) \ InOrderHeap(s') :
                u = DecidedVar \/ s.vars[u].value # UNDEF]_vars


\* a decision above the assumption levels has just been made: the decided
\* variable has a higher activity than an unassigned variable left in the
\* heap, and a propagated variable has been discarded from the heap
C30_Witness ==
    /\ pc = "propagate"
    /\ s.stats.decisions >= 1
    /\ Len(assumps) < s.decision_level
    /\ LastIsDecision(s)
    /\ \E u \in InOrderHeap(s) :
          /\ s.vars[u].value = UNDEF
          /\ s.vars[u].activity < s.vars[var(s.trail[Len(s.trail)].lit)].activity
    /\ \E w \in 1 .. s.num_vars :
          /\ s.vars[w].value # UNDEF
          /\ s.vars[w].reason \in DOMAIN s.arena
          /\ w \notin InOrderHeap(s)


(***************************************************************************)
(* C31: the postcondition of solver_backtrack (solver.c 357-379)           *)
(***************************************************************************)
\* the trail position solver_backtrack cuts the trail at
TrailPos(st, l) == IF l = 0 THEN 0 ELSE st.trail_lims[l]

\* the variables of the trail entries of st at positions n and above
RemovedVars(st, n) == { var(st.trail[i].lit) : i \in n + 1 .. Len(st.trail) }

\* the variables of the trail entries of st below position n
KeptVars(st, n) == { var(st.trail[i].lit) : i \in 1 .. n }

BacktrackPost(st, l) ==
    LET r == solver_backtrack(st, l)
        pos == TrailPos(st, l)
    IN IF l >= st.decision_level THEN r = st
       ELSE /\ Len(r.trail) = pos
            /\ r.qhead = pos
            /\ r.decision_level = l
            /\ r.trail = Prefix(st.trail, pos)
            /\ \A v \in RemovedVars(st, pos) :
                  /\ r.vars[v].value = UNDEF
                  /\ r.vars[v].level = INVALID_LEVEL
                  /\ r.vars[v].reason = INVALID_CLAUSE
                  /\ v \in InOrderHeap(r)
            /\ \A v \in KeptVars(st, pos) :
                  /\ r.vars[v].value = st.vars[v].value
                  /\ r.vars[v].level = st.vars[v].level
                  /\ r.vars[v].reason = st.vars[v].reason
            /\ \A v \in DOMAIN st.vars :
                  /\ r.vars[v].polarity = st.vars[v].polarity
                  /\ r.vars[v].activity = st.vars[v].activity
            /\ r.arena = st.arena
            /\ r.clauses = st.clauses
            /\ r.learnts = st.learnts
            /\ r.watches = st.watches

\* C31: solver_backtrack(l) with l < decision_level leaves trail_size =
\* qhead = trail_lims[l] (0 when l = 0) and decision_level = l, every
\* variable whose trail entry was removed is UNDEF with level INVALID_LEVEL
\* and reason INVALID_CLAUSE and is in the order heap, the entries below
\* keep value, level and reason, and polarities, activities, clauses and
\* watches are unchanged; with l >= decision_level nothing changes
C31_BacktrackPostcondition ==
    \A l \in 0 .. s.decision_level + 1 : BacktrackPost(s, l)

\* a state two levels deep whose backtrack to level 1 removes a decision
\* and a propagated literal, one of them out of the order heap
C31_Witness ==
    /\ s.decision_level >= 2
    /\ Len(s.trail) >= s.trail_lims[1] + 3
    /\ \E v \in RemovedVars(s, s.trail_lims[1]) :
          v \notin InOrderHeap(s) /\ s.vars[v].reason # INVALID_CLAUSE
    /\ s.trail_lims[1] > 0


(***************************************************************************)
(* C32: level-0 assignments (solver.c 357-424, 1892-1906)                  *)
(***************************************************************************)
\* the variables assigned with level 0 in st
Level0Assigned(st) ==
    { v \in DOMAIN st.vars : st.vars[v].value # UNDEF /\ st.vars[v].level = 0 }

InSolve(p) == p \in {"propagate", "conflict", "decide"}

\* C32: a variable assigned at level 0 (by an original unit clause, by
\* level-0 propagation or as a learnt unit clause recorded with level 0)
\* keeps its value over every step after which solve has not returned
C32_Level0Permanent ==
    [][InSolve(pc') =>
          \A v \in Level0Assigned(s) : s'.vars[v].value = s.vars[v].value]_vars

\* solve is running after a conflict and the variable of an accepted unit
\* clause is unassigned
C32_Witness ==
    /\ InSolve(pc)
    /\ s.stats.conflicts > 0
    /\ \E i \in Accepted :
          Len(given[i].lits) = 1 /\ s.vars[var(given[i].lits[1])].value = UNDEF


(***************************************************************************)
(* C33: the restart test (solver.c 985-1041) under option records in which *)
(* the Glucose condition can hold within the conflict bound                *)
(***************************************************************************)
\* glucose_min_conflicts 0 or the default, restart_postpone off, 3 or the
\* default
RestartOpts ==
    { [o EXCEPT !.glucose_min_conflicts = g, !.restart_postpone = p] :
        o \in ModelOpts, g \in {0, default_opts.glucose_min_conflicts},
        p \in {0, 3, default_opts.restart_postpone} }

InitRestart ==
    /\ s \in { NewVars(solver_new_with_opts(o), MaxSubsumeVars) : o \in RestartOpts }
    /\ pc = "build"
    /\ conflict = INVALID_CLAUSE
    /\ assumps = <<>>
    /\ ret = NoRet
    /\ given = <<>>
    /\ call = NoCall

SpecRestart == InitRestart /\ [][NextSubsume]_vars

\* the solver solver_should_restart is called on in the conflict branch
\* that is about to run: after the learnt clause and the activity decay
RestartArg ==
    decay_var_inc(ConflictBody([s EXCEPT !.stats.conflicts = @ + 1,
                                         !.restart.conflicts_since = @ + 1],
                               conflict, Len(assumps)).stages[2])

GeometricDue(st) == st.restart.conflicts_since >= st.restart.threshold

\* conflicts > glucose_min_conflicts and fast_ma > slow_ma
GlucoseRaw(st) ==
    st.stats.conflicts > st.opts.glucose_min_conflicts /\ FastAboveSlow(st)

GlucoseDue(st) == GlucoseRaw(st) /\ Len(st.trail) >= st.opts.restart_postpone

\* C33: with glucose_restart, solver_should_restart returns true exactly
\* when the geometric condition or the Glucose condition (with the trail
\* not shorter than the postpone threshold) holds, and a geometric firing
\* replaces threshold by floor(threshold * restart_inc)
C33_RestartDisjunction ==
    (AnalysedConflict /\ s.opts.glucose_restart) =>
        /\ solver_should_restart(RestartArg).restart
              = (GeometricDue(RestartArg) \/ GlucoseDue(RestartArg))
        /\ GeometricDue(RestartArg) =>
              solver_should_restart(RestartArg).st.restart.threshold
                 = (RestartArg.restart.threshold * s.opts.restart_inc_num)
                      \div s.opts.restart_inc_den

\* a conflict whose restart test finds the geometric restart due while the
\* Glucose averages ask for a restart and the trail is below the postpone
\* threshold
C33_Witness ==
    /\ AnalysedConflict
    /\ s.opts.glucose_restart
    /\ GeometricDue(RestartArg)
    /\ GlucoseRaw(RestartArg)
    /\ Len(RestartArg.trail) < s.opts.restart_postpone


(***************************************************************************)
(* C34: the effect of a restart (solver.c 985-1041, 1991-1995)             *)
(***************************************************************************)
\* the restart test of the conflict branch that is about to run fires
RestartFires == AnalysedConflict /\ solver_should_restart(RestartArg).restart

\* the solver after the restart test of that conflict branch
AfterRestartTest ==
    ConflictBody([s EXCEPT !.stats.conflicts = @ + 1,
                           !.restart.conflicts_since = @ + 1],
                 conflict, Len(assumps)).stages[3]

RestartResetsCounter == RestartFires => AfterRestartTest.restart.conflicts_since = 0

RestartKeepsAssumptions ==
    RestartFires =>
        /\ AfterRestartTest.decision_level = Len(assumps)
        /\ \A i \in 1 .. Len(assumps) : LitTrue(AfterRestartTest, assumps[i])

RestartFrame ==
    RestartFires =>
        /\ AfterRestartTest.arena = RestartArg.arena
        /\ AfterRestartTest.learnts = RestartArg.learnts
        /\ \A v \in DOMAIN s.vars :
              /\ AfterRestartTest.vars[v].polarity = RestartArg.vars[v].polarity
              /\ AfterRestartTest.vars[v].activity = RestartArg.vars[v].activity

\* C34: a restart that fires, by the geometric or by the Glucose condition,
\* resets conflicts_since to 0, backtracks to the level of the assumptions
\* with every assumption literal still assigned, deletes no learnt clause
\* and changes no saved polarity or activity
C34_RestartEffect ==
    RestartResetsCounter /\ RestartKeepsAssumptions /\ RestartFrame

\* a restart fires by the Glucose condition alone, above the level of an
\* assumption that is still assigned when the restart test is reached
C34_Witness ==
    /\ RestartFires
    /\ ~GeometricDue(RestartArg)
    /\ assumps # <<>>
    /\ RestartArg.decision_level > Len(assumps)
    /\ \A i \in 1 .. Len(assumps) : LitTrue(RestartArg, assumps[i])


(***************************************************************************)
(* C35: solver_reduce_db (solver.c 1057-1147) on solvers that hold enough  *)
(* learnt clauses for its threshold.  The solvers are put together from    *)
(* what solver_reduce_db reads: num_clauses and clauses[] as               *)
(* solver_add_clause leaves them, and the learnt clauses as the conflict   *)
(* branch stores them (solver.c 1922-1959): in the arena with the learned  *)
(* flag and their LBD, referenced from learnts[], not from clauses[].      *)
(***************************************************************************)
MaxReduceClauses == 3
MaxExtraLearnts == 3

RECURSIVE AddOriginals(_, _)
\* the first k ternary clauses of SubsumeFormula, added by solver_add_clause
AddOriginals(st, k) ==
    IF k = 0 THEN st
    ELSE solver_add_clause(AddOriginals(st, k - 1), SubsumeFormula[k]).st

LearntSize == 3

\* the reference arena_alloc returns for the k-th learnt clause
LearntRef(st, k) == st.arena_size + (k - 1) * (HeaderWords + LearntSize)

\* the k-th learnt clause: LearntSize literals over the first variables,
\* their signs the binary digits of k, LBD 1 + ((k + p) % LearntSize)
LearntAt(k, p) ==
    [ClauseAt([i \in 1 .. LearntSize |-> mkLit(i, (k \div Pow(2, i - 1)) % 2 = 1)],
              LearntSize, TRUE)
     EXCEPT !.lbd = 1 + ((k + p) % LearntSize)]

\* st after n conflicts that each stored a learnt clause
WithLearnts(st, n, p) ==
    [st EXCEPT
       !.arena = [c \in { LearntRef(st, k) : k \in 1 .. n } |->
                     LearntAt(1 + (c - st.arena_size) \div (HeaderWords + LearntSize), p)]
                 @@ @,
       !.arena_size = @ + n * (HeaderWords + LearntSize),
       !.learnts = [k \in 1 .. n |-> LearntRef(st, k)],
       !.stats.learned_clauses = n,
       !.stats.learned_literals = n * LearntSize,
       !.stats.conflicts = st.opts.reduce_interval]

ReduceOpts == { [o EXCEPT !.glue_lbd = g] : o \in ModelOpts, g \in {2, 3} }

ReduceInputs ==
    { WithLearnts(b, ReduceThreshold(b) - 2 + e, p) :
        b \in { AddOriginals(NewVars(solver_new_with_opts(o), MaxSubsumeVars), k) :
                  o \in ReduceOpts, k \in 0 .. MaxReduceClauses },
        e \in 0 .. MaxExtraLearnts, p \in 0 .. LearntSize - 1 }

InitReduce ==
    /\ s \in ReduceInputs
    /\ pc = "build"
    /\ conflict = INVALID_CLAUSE
    /\ assumps = <<>>
    /\ ret = NoRet
    /\ given = <<>>
    /\ call = NoCall

\* "Reduce clause database periodically" (solver.c 1997-2000)
ReduceDb ==
    /\ pc = "build"
    /\ s.stats.conflicts % s.opts.reduce_interval = 0
    /\ s' \in ReduceOutcomes(s)
    /\ pc' = "reduced"
    /\ UNCHANGED <<conflict, assumps, ret, given, call>>

NextReduce == ReduceDb

SpecReduce == InitReduce /\ [][NextReduce]_vars

\* the live learnt clauses of st
LiveLearnts(st) ==
    { c \in DOMAIN st.arena : st.arena[c].learned /\ ~st.arena[c].deleted }

\* the clauses a step marks DELETED
Marked == DeletedRefs(s') \ DeletedRefs(s)

\* the live learnt clauses of LBD above glue_lbd
AboveGlue(st) == { c \in LiveLearnts(st) : st.arena[c].lbd > st.opts.glue_lbd }

SecondHalfSize(st) ==
    Cardinality(LiveLearnts(st)) - Cardinality(LiveLearnts(st)) \div 2

\* the number of clauses of the second half with LBD above glue_lbd: the
\* order is by LBD ascending, so they are the tail of the second half
SecondHalfAboveGlue(st) ==
    IF Cardinality(AboveGlue(st)) < SecondHalfSize(st)
    THEN Cardinality(AboveGlue(st)) ELSE SecondHalfSize(st)

\* C35: solver_reduce_db, run with at least num_clauses / 2 + 1000 live
\* learnt clauses, marks DELETED the clauses of the second half (in the
\* order LBD ascending, activity descending) whose LBD exceeds glue_lbd; it
\* never marks a clause with LBD <= glue_lbd, an original clause or a
\* clause of the first half, and below the threshold it marks nothing
C35_ReduceDb ==
    [][pc' = "reduced" =>
          /\ Marked \subseteq AboveGlue(s)
          /\ \A c \in Marked : \A d \in LiveLearnts(s) \ Marked :
                compare_clauses(s.arena[d], s.arena[c]) <= 0
          /\ IF Cardinality(LiveLearnts(s)) >= ReduceThreshold(s)
             THEN Cardinality(Marked) = SecondHalfAboveGlue(s)
             ELSE Marked = {}]_vars

\* solver_reduce_db has run on a solver whose live learnt clauses reach the
\* threshold, with clauses of LBD above glue_lbd among them
C35_Witness ==
    /\ pc = "reduced"
    /\ s.stats.reduces = 1
    /\ Cardinality(LiveLearnts(s)) + s.stats.deleted_clauses >= ReduceThreshold(s)
    /\ \E c \in DOMAIN s.arena : s.arena[c].learned /\ s.arena[c].lbd > s.opts.glue_lbd
    /\ s.num_clauses > 0

\* no slot of clauses[] refers to a learnt clause
ClausesHoldOriginals ==
    \A i \in 1 .. Len(s.clauses) :
        s.clauses[i] \notin {INVALID_CLAUSE, INDETERMINATE}
            => ~s.arena[s.clauses[i]].learned


(***************************************************************************)
(* C36: elim_cost and elim_preprocess (elim.c 236-295, 649-688)            *)
(***************************************************************************)
ELIM_SKIP == 2147483647

\* the pairs of positions of the two occurrence lists whose clauses are
\* live and have a resolvent that is no tautology, in the order of the two
\* loops of elim_cost
NonTautPairs(st, v) ==
    { p \in (1 .. Len(st.elim.occs[mkLit(v, FALSE)]))
              \X (1 .. Len(st.elim.occs[mkLit(v, TRUE)])) :
        /\ ~st.arena[st.elim.occs[mkLit(v, FALSE)][p[1]]].deleted
        /\ ~st.arena[st.elim.occs[mkLit(v, TRUE)][p[2]]].deleted
        /\ ~elim_is_tautology(st.arena[st.elim.occs[mkLit(v, FALSE)][p[1]]].lits,
                              st.arena[st.elim.occs[mkLit(v, TRUE)][p[2]]].lits, v) }

\* the early return inside the loops and the test after them give the same
\* result: ELIM_SKIP when the resolvents outnumber original_count + elim_grow
elim_cost(st, v) ==
    LET pos_count == Len(st.elim.occs[mkLit(v, FALSE)])
        neg_count == Len(st.elim.occs[mkLit(v, TRUE)])
        resolvent_count == Cardinality(NonTautPairs(st, v))
        original_count == pos_count + neg_count
    IN IF v \notin DOMAIN st.elim.eliminated THEN ELIM_SKIP
       ELSE IF st.elim.eliminated[v] THEN ELIM_SKIP
       ELSE IF st.vars[v].value # UNDEF THEN ELIM_SKIP
       ELSE IF pos_count > st.opts.elim_max_occ \/ neg_count > st.opts.elim_max_occ
       THEN ELIM_SKIP
       ELSE IF pos_count = 0 \/ neg_count = 0 THEN 0
       ELSE IF resolvent_count <= original_count + st.opts.elim_grow
       THEN resolvent_count - original_count
       ELSE ELIM_SKIP

\* the test of elim_preprocess on the cost: "Beneficial (cost <= 0 means net
\* reduction)"
Beneficial(cost) == cost # ELIM_SKIP /\ cost <= 0

\* one iteration of the loop of elim_preprocess, for variable v; x holds
\* the solver, the count of eliminated variables and whether the function
\* has returned
PreprocessIteration(x, v) ==
    IF x.done \/ x.st.elim.eliminated[v] \/ x.st.vars[v].value # UNDEF THEN x
    ELSE IF ~Beneficial(elim_cost(x.st, v)) THEN x
    ELSE LET r == elim_eliminate_var(x.st, v) IN
         IF ~r.ok THEN [x EXCEPT !.st = r.st]
         ELSE [st |-> r.st, eliminated |-> x.eliminated + 1,
               done |-> r.st.result = LFALSE]

RECURSIVE PreprocessBefore(_, _)
\* elim_init, elim_build_occs and the iterations for the variables below v
PreprocessBefore(st, v) ==
    IF v = 1
    THEN [st |-> elim_build_occs([elim |-> ElimNew(st)] @@ st),
          eliminated |-> 0, done |-> FALSE]
    ELSE CHOOSE r \in { PreprocessIteration(x, v - 1) :
                          x \in { PreprocessBefore(st, v - 1) } } : TRUE

\* returns the solver and the number of eliminated variables
elim_preprocess(st) ==
    IF ~st.opts.elim THEN [st |-> st, eliminated |-> 0]
    ELSE [st |-> PreprocessBefore(st, st.num_vars + 1).st,
          eliminated |-> PreprocessBefore(st, st.num_vars + 1).eliminated]

MaxElimVars == 4

\* (1 2 3) (1 2 4) (-1 2 3) (-1 2 4) (-1 3 4) (-1 -2 -3): variable 1 has two
\* positive and up to four negative occurrences, and up to six resolvents
\* that are no tautologies
ElimFormula ==
    << <<mkLit(1, FALSE), mkLit(2, FALSE), mkLit(3, FALSE)>>,
       <<mkLit(1, FALSE), mkLit(2, FALSE), mkLit(4, FALSE)>>,
       <<mkLit(1, TRUE), mkLit(2, FALSE), mkLit(3, FALSE)>>,
       <<mkLit(1, TRUE), mkLit(2, FALSE), mkLit(4, FALSE)>>,
       <<mkLit(1, TRUE), mkLit(3, FALSE), mkLit(4, FALSE)>>,
       <<mkLit(1, TRUE), mkLit(2, TRUE), mkLit(3, TRUE)>> >>

MaxGrow == 2

\* the options of elim.c: elim on or off, elim_max_occ 2 or 10, elim_grow
\* 0 .. MaxGrow
PreprocessOpts ==
    { [elim |-> e, elim_max_occ |-> m, elim_grow |-> g] @@ o :
        o \in ModelOpts, e \in BOOLEAN, m \in {2, 10}, g \in 0 .. MaxGrow }

InitPreprocess ==
    /\ s \in { NewVars(solver_new_with_opts(o), MaxElimVars) : o \in PreprocessOpts }
    /\ pc = "build"
    /\ conflict = INVALID_CLAUSE
    /\ assumps = <<>>
    /\ ret = NoRet
    /\ given = <<>>
    /\ call = NoCall

\* the clauses are handed over in the order of the formula, any of them
\* left out
AddElimClause ==
    /\ pc = "build"
    /\ \E i \in 1 .. Len(ElimFormula) :
          /\ \A k \in 1 .. Len(given) :
                \E j \in 1 .. i - 1 : given[k].lits = ElimFormula[j]
          /\ LET r == solver_add_clause(s, ElimFormula[i]) IN
                /\ s' = r.st
                /\ ret' = [op |-> "add_clause", val |-> r.ok]
                /\ given' = Append(given, [lits |-> ElimFormula[i], ok |-> r.ok])
    /\ UNCHANGED <<pc, conflict, assumps, call>>

ElimPreprocess ==
    /\ pc = "build"
    /\ s' = elim_preprocess(s).st
    /\ ret' = [op |-> "elim_preprocess", val |-> elim_preprocess(s).eliminated]
    /\ pc' = "preprocessed"
    /\ UNCHANGED <<conflict, assumps, given, call>>

NextPreprocess == AddElimClause \/ ElimPreprocess

SpecPreprocess == InitPreprocess /\ [][NextPreprocess]_vars

\* v is a candidate in st: unassigned, not eliminated, and neither
\* occurrence list longer than elim_max_occ
Candidate(st, v) ==
    /\ st.vars[v].value = UNDEF
    /\ ~st.elim.eliminated[v]
    /\ Len(st.elim.occs[mkLit(v, FALSE)]) <= st.opts.elim_max_occ
    /\ Len(st.elim.occs[mkLit(v, TRUE)]) <= st.opts.elim_max_occ

\* |non-taut resolvents| <= |P| + |N| + elim_grow
WithinGrowth(st, v) ==
    Cardinality(NonTautPairs(st, v))
        <= Len(st.elim.occs[mkLit(v, FALSE)]) + Len(st.elim.occs[mkLit(v, TRUE)])
              + st.opts.elim_grow

\* C36: elim_preprocess eliminates a candidate variable v exactly when the
\* number of its resolvents that are no tautologies is at most
\* |P| + |N| + elim_grow
C36_BenefitCriterion ==
    (pc = "build" /\ s.opts.elim) =>
        \A v \in 1 .. s.num_vars :
            (~PreprocessBefore(s, v).done /\ Candidate(PreprocessBefore(s, v).st, v))
                => (PreprocessBefore(s, v + 1).st.elim.eliminated[v]
                       <=> WithinGrowth(PreprocessBefore(s, v).st, v))

\* elim_preprocess is about to meet a candidate with occurrences of both
\* signs and more resolvents than |P| + |N|, but no more than elim_grow
\* allows
C36_Witness ==
    /\ pc = "build"
    /\ s.opts.elim
    /\ s.opts.elim_grow > 0
    /\ \E v \in 1 .. s.num_vars :
          /\ ~PreprocessBefore(s, v).done
          /\ Candidate(PreprocessBefore(s, v).st, v)
          /\ WithinGrowth(PreprocessBefore(s, v).st, v)
          /\ Cardinality(NonTautPairs(PreprocessBefore(s, v).st, v))
                > Len(PreprocessBefore(s, v).st.elim.occs[mkLit(v, FALSE)])
                    + Len(PreprocessBefore(s, v).st.elim.occs[mkLit(v, TRUE)])


(***************************************************************************)
(* C37: solver_new_var (solver.c 275-333)                                  *)
(***************************************************************************)
\* the step is a call of solver_new_var
NewVarStep == ret'.op = "new_var" /\ s'.num_vars = s.num_vars + 1

\* C37: solver_new_var returns the next variable index, inserts the
\* variable unassigned into the order heap and leaves every existing
\* variable record, trail entry and watch list unchanged
C37_NewVarCoherent ==
    [][NewVarStep =>
          /\ ret'.val = s.num_vars + 1
          /\ s'.vars[s'.num_vars].value = UNDEF
          /\ s'.num_vars \in InOrderHeap(s')
          /\ \A v \in 1 .. s.num_vars : s'.vars[v] = s.vars[v]
          /\ s'.trail = s.trail
          /\ \A l \in DOMAIN s.watches : s'.watches[l] = s.watches[l]]_vars

\* a variable was created after a clause of two or more literals had been
\* accepted, and no watch list holds a watch
C37_Witness ==
    /\ pc = "build"
    /\ ret.op = "new_var"
    /\ \E i \in Accepted : Len(given[i].lits) >= 2
    /\ \A l \in DOMAIN s.watches : s.watches[l] = <<>>


(***************************************************************************)
(* C38: what solver_eliminate_blocked_clauses drops (solver.c 1580-1698)   *)
(***************************************************************************)
\* the slots of clauses[] that the step sets to INVALID_CLAUSE
Dropped ==
    { i \in 1 .. Len(s.clauses) :
        /\ s.clauses[i] \notin {INVALID_CLAUSE, INDETERMINATE}
        /\ s'.clauses[i] = INVALID_CLAUSE }

\* the clauses of the database that the step leaves in place: the arena
\* clauses still referenced from clauses[], and the binary clauses
Kept ==
    { s.arena[s'.clauses[i]].lits :
        i \in { k \in 1 .. Len(s'.clauses) :
                  s'.clauses[k] \notin {INVALID_CLAUSE, INDETERMINATE} } }
      \cup { given[i].lits : i \in { k \in Accepted : Len(given[k].lits) = 2 } }

LitsOf(c) == { c[i] : i \in 1 .. Len(c) }

\* the resolvent of c and d on the variable of l, l in c and neg(l) in d
ResolventOn(c, d, l) == (LitsOf(c) \ {l}) \cup (LitsOf(d) \ {neg(l)})

Tautology(lits) == \E x \in lits : neg(x) \in lits

\* c is blocked on its literal l with respect to the clauses db
BlockedOn(c, l, db) ==
    \A d \in db : neg(l) \in LitsOf(d) => Tautology(ResolventOn(c, d, l))

\* (1 2 3) (-1 2) (-2 3) (1 -3) (-1 -2 3) (2 3 -1) (-1 -3): for each literal
\* of the first clause a binary clause holds its negation, and the sixth
\* clause holds -1 as a literal that is not watched
BlockedFormula ==
    << <<mkLit(1, FALSE), mkLit(2, FALSE), mkLit(3, FALSE)>>,
       <<mkLit(1, TRUE), mkLit(2, FALSE)>>,
       <<mkLit(2, TRUE), mkLit(3, FALSE)>>,
       <<mkLit(1, FALSE), mkLit(3, TRUE)>>,
       <<mkLit(1, TRUE), mkLit(2, TRUE), mkLit(3, FALSE)>>,
       <<mkLit(2, FALSE), mkLit(3, FALSE), mkLit(1, TRUE)>>,
       <<mkLit(1, TRUE), mkLit(3, TRUE)>> >>

\* the clauses are handed over in the order of the formula, any of them
\* left out
AddBlockedClause ==
    /\ pc = "build"
    /\ \E i \in 1 .. Len(BlockedFormula) :
          /\ \A k \in 1 .. Len(given) :
                \E j \in 1 .. i - 1 : given[k].lits = BlockedFormula[j]
          /\ LET r == solver_add_clause(s, BlockedFormula[i]) IN
                /\ s' = r.st
                /\ ret' = [op |-> "add_clause", val |-> r.ok]
                /\ given' = Append(given, [lits |-> BlockedFormula[i], ok |-> r.ok])
    /\ UNCHANGED <<pc, conflict, assumps, call>>

NextBlocked ==
    AddBlockedClause \/ SolveBegin \/ Propagate \/ HandleConflict \/ Decide

SpecBlocked == InitBce /\ [][NextBlocked]_vars

\* C38: solver_eliminate_blocked_clauses drops an original clause only if
\* it is blocked on one of its literals: every other live clause with the
\* negated literal, binary clauses included and wherever the literal stands
\* in it, gives a tautology as resolvent
C38_OnlyBlocked ==
    [][\A i \in Dropped :
          /\ ~s.arena[s.clauses[i]].learned
          /\ \E l \in LitsOf(s.arena[s.clauses[i]].lits) :
                BlockedOn(s.arena[s.clauses[i]].lits, l, Kept)]_vars

\* the scan has run on a formula with a binary clause and has dropped a
\* clause
C38_Witness ==
    /\ pc = "propagate"
    /\ s.opts.bce
    /\ \E i \in 1 .. Len(s.clauses) : s.clauses[i] = INVALID_CLAUSE
    /\ \E i \in Accepted : Len(given[i].lits) = 2


(***************************************************************************)
(* C39: the learnt clauses are consequences of the formula                 *)
(* (solver.c 826-926, 1236-1351)                                           *)
(***************************************************************************)
\* the assignment a of the variables makes the clause lits true
Holds(a, lits) == \E k \in 1 .. Len(lits) : a[var(lits[k])] = ~sign(lits[k])

\* every assignment that satisfies the clauses handed to solver_add_clause
\* satisfies lits
Entailed(lits) ==
    \A a \in [1 .. s.num_vars -> BOOLEAN] :
        (\A i \in 1 .. Len(given) : Holds(a, given[i].lits)) => Holds(a, lits)

\* C39: the clause learnt from a conflict - from a BINARY_CONFLICT and
\* through literals propagated by binary watches as well - is a logical
\* consequence of the clauses added with solver_add_clause
C39_LearntImplied == AnalysedConflict => Entailed(Inserted)

\* a BINARY_CONFLICT is about to be analysed at a level above 0, on a
\* formula of binary clauses that some assignment satisfies
C39_Witness ==
    /\ AnalysedConflict
    /\ conflict = BINARY_CONFLICT
    /\ Satisfiable
    /\ \A i \in 1 .. Len(given) : Len(given[i].lits) = 2


(***************************************************************************)
(* C40: the clauses array (solver.c 450-475) and the scans that read it    *)
(* (solver.c 1077-1078, 1104-1105, 1643-1652, elim.c 156-157)              *)
(***************************************************************************)
\* slot i (counted from 1) was written and holds INVALID_CLAUSE or the
\* reference of a clause allocated in the arena
SlotWritten(st, i) ==
    /\ i <= Len(st.clauses)
    /\ st.clauses[i] # INDETERMINATE
    /\ st.clauses[i] = INVALID_CLAUSE \/ st.clauses[i] \in DOMAIN st.arena

\* the number of slots solver_eliminate_blocked_clauses scans
BceScanBound(st) == st.num_original

\* the number of slots solver_reduce_db and elim_build_occs scan
ScanBound(st) == st.num_clauses

\* C40: after any sequence of solver_add_clause calls every slot of
\* clauses[] that solver_reduce_db, solver_eliminate_blocked_clauses or
\* elim_build_occs reads was written and holds INVALID_CLAUSE or an arena
\* reference, and no scan goes past num_clauses
C40_ClauseArray ==
    /\ \A i \in 1 .. ScanBound(s) : SlotWritten(s, i)
    /\ \A i \in 1 .. BceScanBound(s) : SlotWritten(s, i)
    /\ BceScanBound(s) <= s.num_clauses

\* unit, binary and longer clauses have been accepted and no solve has
\* started
C40_Witness ==
    /\ pc = "build"
    /\ \A n \in 1 .. 3 : \E i \in Accepted : Len(given[i].lits) = n

====
